---- MODULE Spec2Model ----
(***************************************************************************)
(* A model of the WebSocket session of the trading SDK (src/src/ws):       *)
(* TradingApi::connect_ws_with_config, WebsocketHandle::wait_for_connected,*)
(* WebsocketHandle::recv / send and the ServerMessage classification.      *)
(*                                                                         *)
(* A frame payload is a sequence of chunks.  A chunk stands for a run of   *)
(* bytes of the payload: an opening or closing brace, one "key": value     *)
(* member, a JSON scalar, a run of text that is no JSON, the character     *)
(* U+FFFD, or a byte that is no valid UTF-8.  A string value records in    *)
(* enc whether it is plain, holds U+FFFD, or holds an invalid byte.        *)
(***************************************************************************)
EXTENDS Integers, Sequences, FiniteSets, TLC

---------------------------------------------------------------------------
(* Bounds of the model *)

\* sockets that connect may open in one run
MaxSockets == 2
\* frames the transport buffers per socket before recv reads them
MaxQueue == 2
\* longest wait of one operation that the clock counts
MaxTime == 2
\* frames the caller has written to the sockets it holds
MaxSent == 1
\* the longest list of topics a caller passes
MaxTopics == 2
\* calls of sign_to_base64 on one signed transaction
MaxEncodes == 2

---------------------------------------------------------------------------
(* JSON values and payload chunks *)

NoVal == [t |-> "none", s |-> "", n |-> 0, enc |-> "ok"]
Str(s) == [t |-> "str", s |-> s, n |-> 0, enc |-> "ok"]
\* the string s followed by the character U+FFFD
StrRepl(s) == [t |-> "str", s |-> s, n |-> 0, enc |-> "repl"]
\* the string s followed by the byte 0xFF, which is no valid UTF-8
StrBad(s) == [t |-> "str", s |-> s, n |-> 0, enc |-> "bad"]
Num(n) == [t |-> "num", s |-> "", n |-> n, enc |-> "ok"]
\* an array of the strings s
Arr(s) == [t |-> "arr", s |-> s, n |-> 0, enc |-> "ok"]
\* a nested object with the fields of the struct s ("both": of forceOrder
\* and of orderUpdate)
Obj(s) == [t |-> "obj", s |-> s, n |-> 0, enc |-> "ok"]

LB == [kind |-> "lbrace", k |-> "", v |-> NoVal]
RB == [kind |-> "rbrace", k |-> "", v |-> NoVal]
M(k, v) == [kind |-> "member", k |-> k, v |-> v]
SCALAR == [kind |-> "scalar", k |-> "", v |-> Num(1)]
JUNK == [kind |-> "junk", k |-> "", v |-> NoVal]
REPL == [kind |-> "repl", k |-> "", v |-> NoVal]
BAD == [kind |-> "bad", k |-> "", v |-> NoVal]

\* Option<T>
None == [v |-> 0, some |-> FALSE]
Some(x) == [v |-> x, some |-> TRUE]

---------------------------------------------------------------------------
(* std: str::from_utf8 and String::from_utf8_lossy over chunks *)

ChunkIsUtf8(c) == c.kind # "bad" /\ c.v.enc # "bad"

IsUtf8(data) == \A i \in 1..Len(data) : ChunkIsUtf8(data[i])

LossyChunk(c) ==
    IF c.kind = "bad" THEN REPL
    ELSE IF c.v.enc = "bad" THEN [c EXCEPT !.v.enc = "repl"]
    ELSE c

\* String::from_utf8_lossy(&data).to_string(): every invalid byte becomes U+FFFD
FromUtf8Lossy(data) == [i \in 1..Len(data) |-> LossyChunk(data[i])]

---------------------------------------------------------------------------
(* serde_json: reading one JSON value from a payload *)

Bool(b) == [t |-> "bool", s |-> "", n |-> IF b THEN 1 ELSE 0, enc |-> "ok"]

\* The members of an object are scanned left to right up to the closing
\* brace.  validate is TRUE for from_slice, which checks every string for
\* UTF-8, and FALSE for from_str, whose input is UTF-8 by its type.
\* The result is "" or the text of the syntax error.
RECURSIVE ScanMembers(_, _, _)
ScanMembers(data, i, validate) ==
    IF i > Len(data) THEN "EOF while parsing an object"
    ELSE IF data[i].kind = "rbrace" THEN ""
    ELSE IF data[i].kind = "member" THEN
        IF validate /\ data[i].v.enc = "bad"
        THEN "invalid unicode code point"
        ELSE ScanMembers(data, i + 1, validate)
    ELSE "key must be a string"

\* index of the chunk that ends the first JSON value of data (0 if none)
RECURSIVE ValueEnd(_, _)
ValueEnd(data, i) ==
    IF i > Len(data) THEN 0
    ELSE IF data[i].kind = "rbrace" THEN i
    ELSE ValueEnd(data, i + 1)

SyntaxError(data, validate) ==
    IF Len(data) = 0 THEN "EOF while parsing a value"
    ELSE IF data[1].kind = "scalar" THEN ""
    ELSE IF data[1].kind = "lbrace" THEN ScanMembers(data, 2, validate)
    ELSE "expected value"

\* the members of the object read (empty for a scalar)
Members(data) ==
    IF data[1].kind = "scalar" THEN <<>>
    ELSE SubSeq(data, 2, ValueEnd(data, 2) - 1)

IsObject(data) == data[1].kind = "lbrace"

\* Deserializer::end: anything after the value is an error
HasTrailing(data) ==
    IF data[1].kind = "scalar" THEN Len(data) > 1
    ELSE ValueEnd(data, 2) < Len(data)

---------------------------------------------------------------------------
(* ServerMessage and its derived Deserialize *)

Count(obj, k) == Cardinality({i \in 1..Len(obj) : obj[i].k = k})

Get(obj, k) == obj[CHOOSE i \in 1..Len(obj) : obj[i].k = k].v

\* a declared field: present once, with the declared type
FieldOk(obj, f) == Count(obj, f[1]) = 1 /\ Get(obj, f[1]).t = f[2]

\* #[serde(default)] id: Option<RequestId>
OptIdOk(obj) == Count(obj, "id") = 0 \/ FieldOk(obj, <<"id", "num">>)

IdOf(obj) == IF Count(obj, "id") = 1 THEN Some(Get(obj, "id").n) ELSE None

Matches(obj, req) == \A f \in req : FieldOk(obj, f)

StatusReq == {<<"E", "num">>, <<"status", "str">>, <<"clientId", "str">>}
PongReq == {<<"E", "num">>}
ErrorReq == {<<"E", "num">>, <<"error", "obj">>}
MethodResultReq == {<<"E", "num">>, <<"result", "str">>}
ListSubscriptionsReq == {<<"E", "num">>, <<"result", "arr">>}

DepthUpdateReq ==
    {<<"e", "str">>, <<"E", "num">>, <<"T", "num">>, <<"s", "str">>,
     <<"U", "num">>, <<"u", "num">>, <<"pu", "num">>, <<"b", "arr">>,
     <<"a", "arr">>, <<"mt", "str">>}
AggTradeReq ==
    {<<"e", "str">>, <<"E", "num">>, <<"s", "str">>, <<"a", "num">>,
     <<"p", "str">>, <<"q", "str">>, <<"f", "num">>, <<"l", "num">>,
     <<"T", "num">>, <<"m", "bool">>, <<"th", "str">>, <<"ua", "str">>,
     <<"oi", "num">>, <<"mk", "bool">>, <<"ff", "bool">>, <<"lq", "bool">>,
     <<"fe", "str">>, <<"nf", "str">>, <<"fa", "str">>, <<"sd", "str">>}
BookTickerReq ==
    {<<"e", "str">>, <<"u", "num">>, <<"E", "num">>, <<"T", "num">>,
     <<"s", "str">>, <<"b", "str">>, <<"B", "str">>, <<"a", "str">>,
     <<"A", "str">>, <<"mt", "str">>}
MarkPriceReq ==
    {<<"e", "str">>, <<"E", "num">>, <<"s", "str">>, <<"p", "str">>,
     <<"i", "str">>, <<"r", "str">>}
ForceOrderReq == {<<"e", "str">>, <<"E", "num">>, <<"o", "obj">>}
OrderUpdateReq == {<<"e", "str">>, <<"E", "num">>, <<"o", "obj">>}

\* mutant: the variant names are renamed to camelCase
TagOfCamel(e) ==
    CASE e = "status" -> "Status"
      [] e = "pong" -> "Pong"
      [] e = "error" -> "Error"
      [] e = "subscribe" -> "Subscribe"
      [] e = "unsubscribe" -> "Unsubscribe"
      [] e = "listSubscriptions" -> "ListSubscriptions"
      [] OTHER -> ""

\* #[serde(tag = "e", rename_all = "snake_case")] enum TaggedMessage
TagOf(e) ==
    CASE e = "status" -> "Status"
      [] e = "pong" -> "Pong"
      [] e = "error" -> "Error"
      [] e = "subscribe" -> "Subscribe"
      [] e = "unsubscribe" -> "Unsubscribe"
      [] e = "list_subscriptions" -> "ListSubscriptions"
      [] OTHER -> ""

TagReq(tag) ==
    CASE tag = "Status" -> StatusReq
      [] tag = "Pong" -> PongReq
      [] tag = "Error" -> ErrorReq
      [] tag = "Subscribe" -> MethodResultReq
      [] tag = "Unsubscribe" -> MethodResultReq
      [] tag = "ListSubscriptions" -> ListSubscriptionsReq
      [] OTHER -> {}

TagHasId(tag) == tag \in {"Pong", "Error", "Subscribe", "Unsubscribe", "ListSubscriptions"}

TaggedTag(obj) ==
    IF Count(obj, "e") = 1 /\ Get(obj, "e").t = "str" /\ Get(obj, "e").enc = "ok"
    THEN TagOf(Get(obj, "e").s)
    ELSE ""

TaggedMatches(obj) ==
    /\ TaggedTag(obj) # ""
    /\ Matches(obj, TagReq(TaggedTag(obj)))
    /\ TagHasId(TaggedTag(obj)) => OptIdOk(obj)

\* the nested "o" object of a liquidation and of an order update differ
ForceOrderMatches(obj) ==
    Matches(obj, ForceOrderReq) /\ Get(obj, "o").s \in {"forceOrder", "both"}
OrderUpdateMatches(obj) ==
    Matches(obj, OrderUpdateReq) /\ Get(obj, "o").s \in {"orderUpdate", "both"}

\* the fields a variant keeps of the object
Keep(obj, req) == {obj[i] : i \in {j \in 1..Len(obj) : \E f \in req : f[1] = obj[j].k}}

Message(variant, tag, id, fields) ==
    [tag |-> tag, variant |-> variant, id |-> id, fields |-> fields,
     err |-> "", raw |-> <<>>]

\* ServerMessage::Unknown(error message, raw text)
Unknown(err, text) ==
    [tag |-> "", variant |-> "Unknown", id |-> None, fields |-> {},
     err |-> err, raw |-> text]

NoMatch == "data did not match any variant of untagged enum ServerMessage"

\* mutant: the untagged error form is tried first and MarkPrice before AggTrade
UntaggedErrorFirst(obj) ==
    IF Matches(obj, ErrorReq) /\ OptIdOk(obj) THEN
        Message("Error", "", IdOf(obj), Keep(obj, ErrorReq))
    ELSE IF TaggedMatches(obj) THEN
        Message("Tagged", TaggedTag(obj),
                IF TagHasId(TaggedTag(obj)) THEN IdOf(obj) ELSE None,
                Keep(obj, TagReq(TaggedTag(obj))))
    ELSE IF Matches(obj, DepthUpdateReq) THEN
        Message("DepthUpdate", "", None, Keep(obj, DepthUpdateReq))
    ELSE IF Matches(obj, MarkPriceReq) THEN
        Message("MarkPrice", "", None, Keep(obj, MarkPriceReq))
    ELSE IF Matches(obj, AggTradeReq) THEN
        Message("AggTrade", "", None, Keep(obj, AggTradeReq))
    ELSE IF Matches(obj, BookTickerReq) THEN
        Message("BookTicker", "", None, Keep(obj, BookTickerReq))
    ELSE IF ForceOrderMatches(obj) THEN
        Message("ForceOrder", "", None, Keep(obj, ForceOrderReq))
    ELSE IF OrderUpdateMatches(obj) THEN
        Message("OrderUpdate", "", None, Keep(obj, OrderUpdateReq))
    ELSE Unknown(NoMatch, <<>>)

\* #[serde(untagged)] enum ServerMessage: the variants are tried in the
\* order of declaration and the first that matches is taken.
\* The result is a message, or Unknown(NoMatch, <<>>) standing for the error.
Untagged(obj) ==
    IF TaggedMatches(obj) THEN
        Message("Tagged", TaggedTag(obj),
                IF TagHasId(TaggedTag(obj)) THEN IdOf(obj) ELSE None,
                Keep(obj, TagReq(TaggedTag(obj))))
    ELSE IF Matches(obj, DepthUpdateReq) THEN
        Message("DepthUpdate", "", None, Keep(obj, DepthUpdateReq))
    ELSE IF Matches(obj, AggTradeReq) THEN
        Message("AggTrade", "", None, Keep(obj, AggTradeReq))
    ELSE IF Matches(obj, BookTickerReq) THEN
        Message("BookTicker", "", None, Keep(obj, BookTickerReq))
    ELSE IF Matches(obj, MarkPriceReq) THEN
        Message("MarkPrice", "", None, Keep(obj, MarkPriceReq))
    ELSE IF ForceOrderMatches(obj) THEN
        Message("ForceOrder", "", None, Keep(obj, ForceOrderReq))
    ELSE IF OrderUpdateMatches(obj) THEN
        Message("OrderUpdate", "", None, Keep(obj, OrderUpdateReq))
    ELSE IF Matches(obj, ErrorReq) /\ OptIdOk(obj) THEN
        Message("Error", "", IdOf(obj), Keep(obj, ErrorReq))
    ELSE Unknown(NoMatch, <<>>)

\* serde_json::from_str / from_slice for ServerMessage: [ok, msg, err]
Deserialize(data, validate) ==
    LET se == SyntaxError(data, validate) IN
    IF se # "" THEN [err |-> se, ok |-> FALSE, msg |-> Unknown("", <<>>)]
    \* the object is read once, and its members are matched against the variants
    ELSE LET m == IF IsObject(data)
                  THEN CHOOSE r \in {Untagged(obj) : obj \in {Members(data)}} : TRUE
                  ELSE Unknown(NoMatch, <<>>) IN
         IF m.variant = "Unknown" THEN [err |-> NoMatch, ok |-> FALSE, msg |-> m]
         ELSE IF HasTrailing(data)
              THEN [err |-> "trailing characters", ok |-> FALSE, msg |-> Unknown("", <<>>)]
              ELSE [err |-> "", ok |-> TRUE, msg |-> m]

FromStr(text) == Deserialize(text, FALSE)

FromSlice(data) == Deserialize(data, TRUE)

---------------------------------------------------------------------------
(* Stream items: reqwest_websocket::Message, a read error, the end *)

Text(d) == [kind |-> "text", data |-> d, code |-> 0, reason |-> ""]
Binary(d) == [kind |-> "binary", data |-> d, code |-> 0, reason |-> ""]
Close(c, r) == [kind |-> "close", data |-> <<>>, code |-> c, reason |-> r]
Ping == [kind |-> "ping", data |-> <<>>, code |-> 0, reason |-> ""]
Pong == [kind |-> "pong", data |-> <<>>, code |-> 0, reason |-> ""]
\* Some(Err(e)) of the stream
ReadError == [kind |-> "error", data |-> <<>>, code |-> 0, reason |-> ""]
\* None of the stream
StreamEnd == [kind |-> "end", data |-> <<>>, code |-> 0, reason |-> ""]

ConnectedDoc ==
    <<LB, M("e", Str("status")), M("E", Num(1)), M("status", Str("connected")),
      M("clientId", Str("c1")), RB>>
DisconnectedDoc ==
    <<LB, M("e", Str("status")), M("E", Num(1)), M("status", Str("disconnected")),
      M("clientId", Str("c1")), RB>>
\* the status string is "connected" followed by U+FFFD
ReplDoc ==
    <<LB, M("e", Str("status")), M("E", Num(1)), M("status", StrRepl("connected")),
      M("clientId", Str("c1")), RB>>
\* the status string is "connected" followed by the byte 0xFF
BadDoc ==
    <<LB, M("e", Str("status")), M("E", Num(1)), M("status", StrBad("connected")),
      M("clientId", Str("c1")), RB>>
SubscribeDoc ==
    <<LB, M("e", Str("subscribe")), M("id", Num(5)), M("E", Num(1)),
      M("result", Str("success")), RB>>
ListDoc ==
    <<LB, M("e", Str("list_subscriptions")), M("id", Num(7)), M("E", Num(1)),
      M("result", Arr(<<"btcusdt@depth10", "ethusdt@aggTrade">>)), RB>>
PongDoc == <<LB, M("e", Str("pong")), M("id", Num(42)), M("E", Num(1)), RB>>
TaggedErrorDoc ==
    <<LB, M("e", Str("error")), M("id", Num(1)), M("E", Num(1)),
      M("error", Obj("error")), RB>>
OrderErrorDoc == <<LB, M("id", Num(2)), M("E", Num(1)), M("error", Obj("error")), RB>>
AggTradeDoc ==
    <<LB, M("e", Str("aggTrade")), M("E", Num(1)), M("s", Str("BTCUSDT")),
      M("a", Num(12345)), M("p", Str("50000.00")), M("q", Str("1.5")),
      M("f", Num(100)), M("l", Num(105)), M("T", Num(1)), M("m", Bool(TRUE)),
      M("th", Str("0xabc123")), M("ua", Str("0xdef456")), M("oi", Num(999)),
      M("mk", Bool(TRUE)), M("ff", Bool(FALSE)), M("lq", Bool(FALSE)),
      M("fe", Str("0.001")), M("nf", Str("0.001")), M("fa", Str("USDT")),
      M("sd", Str("BUY")), RB>>
MarkPriceDoc ==
    <<LB, M("e", Str("markPriceUpdate")), M("E", Num(1)), M("s", Str("BTCUSDT")),
      M("p", Str("50000.00")), M("i", Str("49999.00")), M("r", Str("0.0001")), RB>>
UnsubscribeDoc ==
    <<LB, M("e", Str("unsubscribe")), M("id", Num(6)), M("E", Num(1)),
      M("result", Str("success")), RB>>
DepthUpdateDoc ==
    <<LB, M("e", Str("depthUpdate")), M("E", Num(1)), M("T", Num(1)),
      M("s", Str("BTCUSDT")), M("U", Num(100)), M("u", Num(200)), M("pu", Num(99)),
      M("b", Arr(<<"50000.00", "1.5">>)), M("a", Arr(<<"50001.00", "2.0">>)),
      M("mt", Str("s")), RB>>
BookTickerDoc ==
    <<LB, M("e", Str("bookTicker")), M("u", Num(12345)), M("E", Num(1)), M("T", Num(1)),
      M("s", Str("ETHUSDT")), M("b", Str("3000.00")), M("B", Str("10.5")),
      M("a", Str("3001.00")), M("A", Str("8.2")), M("mt", Str("u")), RB>>
ForceOrderDoc == <<LB, M("e", Str("liquidation")), M("E", Num(1)), M("o", Obj("forceOrder")), RB>>
OrderUpdateDoc ==
    <<LB, M("e", Str("orderTradeUpdate")), M("E", Num(1)), M("o", Obj("orderUpdate")), RB>>
\* the nested object has the fields of a liquidation and of an order update
BothOrdersDoc == <<LB, M("e", Str("liquidation")), M("E", Num(1)), M("o", Obj("both")), RB>>
NoMatchDoc == <<LB, M("foo", Num(1)), RB>>
TruncatedDoc == <<LB, M("e", Str("status")), M("E", Num(1))>>
TrailingDoc == ConnectedDoc \o <<JUNK>>

\* payloads that are UTF-8: a text frame holds one of these
TextPayloads ==
    {ConnectedDoc, DisconnectedDoc, ReplDoc, SubscribeDoc, ListDoc, PongDoc,
     TaggedErrorDoc, OrderErrorDoc, AggTradeDoc, MarkPriceDoc, NoMatchDoc,
     TruncatedDoc, TrailingDoc, <<JUNK>>, <<REPL>>, <<SCALAR>>, <<>>}

\* a binary frame holds any bytes
BinaryPayloads == TextPayloads \cup {BadDoc, <<BAD>>, <<LB, BAD, RB>>}

CloseCodes == {1000, 1006}
CloseReasons == {"", "bye"}
CloseFrames == {Close(c, r) : c \in CloseCodes, r \in CloseReasons}

AllItems ==
    {Text(d) : d \in TextPayloads} \cup {Binary(d) : d \in BinaryPayloads}
    \cup CloseFrames \cup {Ping, Pong, ReadError, StreamEnd}

\* the items a stream yields in the model of connect
SessionItems ==
    {Text(ConnectedDoc), Text(DisconnectedDoc), Text(MarkPriceDoc),
     Text(SubscribeDoc), Text(OrderErrorDoc),
     Binary(ConnectedDoc), Binary(BadDoc),
     Close(1000, "bye"), Ping, ReadError, StreamEnd}

\* the items the server sends behind an item that is still unread
FollowItems ==
    {Text(MarkPriceDoc), Text(<<JUNK>>), Binary(BadDoc), Binary(SubscribeDoc),
     Close(1006, ""), Ping, StreamEnd}

---------------------------------------------------------------------------
(* WSErrors and results *)

NoMsg == [tag |-> "", variant |-> "", id |-> None, fields |-> {}, err |-> "", raw |-> <<>>]

\* format!("{other:?}"): the variant path, then the fields of the message
DebugFmt(m) ==
    [id |-> m.id, fields |-> m.fields,
     path |-> IF m.tag = "" THEN <<m.variant>> ELSE <<m.variant, m.tag>>,
     strings |-> <<m.err, m.raw>>]

WsErr(kind) == [kind |-> kind, code |-> 0, reason |-> "", dbg |-> <<>>]
NoErr == WsErr("")
WsClosed(code, reason) == [kind |-> "WsClosed", code |-> code, reason |-> reason, dbg |-> <<>>]
WsHandshakeFailed(m) ==
    [kind |-> "WsHandshakeFailed", code |-> 0, reason |-> "", dbg |-> <<DebugFmt(m)>>]

Ok(m) == [err |-> NoErr, ok |-> TRUE, msg |-> m, done |-> TRUE]
Err(e) == [err |-> e, ok |-> FALSE, msg |-> NoMsg, done |-> TRUE]
\* the loop of recv goes on to the next item
Continue == [err |-> NoErr, ok |-> FALSE, msg |-> NoMsg, done |-> FALSE]

---------------------------------------------------------------------------
(* WebsocketHandle::recv, one item of the stream *)

RecvText(text) ==
    LET r == FromStr(text) IN
    IF r.ok THEN r.msg ELSE Unknown(r.err, text)

\* mutant: the text of an unparsed binary frame is not kept
RecvBinaryNoText(data) ==
    LET r == FromSlice(data) IN
    IF r.ok THEN r.msg ELSE Unknown(r.err, <<>>)

\* mutant: a binary frame is never parsed
RecvBinaryOpaque(data) == Unknown("binary frame", FromUtf8Lossy(data))

RecvBinary(data) ==
    LET text == FromUtf8Lossy(data)
        r == FromSlice(data)
    IN IF r.ok THEN r.msg ELSE Unknown(r.err, text)

\* mutant: a close frame is reported as the end of the stream
RecvCloseAsEnded(code, reason) == Err(WsErr("WsStreamEnded"))

RecvClose(code, reason) == Err(WsClosed(code, reason))

\* mutant: a text frame that does not parse fails recv
RecvItemStrict(item) ==
    CASE item.kind = "error" -> Err(WsErr("WsUpgradeError"))
      [] item.kind = "text" ->
            IF FromStr(item.data).ok THEN Ok(RecvText(item.data)) ELSE Err(WsErr("JsonError"))
      [] item.kind = "binary" -> Ok(RecvBinary(item.data))
      [] item.kind = "close" -> RecvClose(item.code, item.reason)
      [] item.kind = "end" -> Err(WsErr("WsStreamEnded"))
      [] OTHER -> Continue

\* mutant: a ping or pong frame is returned as an unknown message
RecvItemReturnsControl(item) ==
    CASE item.kind = "error" -> Err(WsErr("WsUpgradeError"))
      [] item.kind = "text" -> Ok(RecvText(item.data))
      [] item.kind = "binary" -> Ok(RecvBinary(item.data))
      [] item.kind = "close" -> RecvClose(item.code, item.reason)
      [] item.kind = "end" -> Err(WsErr("WsStreamEnded"))
      [] OTHER -> Ok(Unknown("control frame", <<>>))

RecvItem(item) ==
    CASE item.kind = "error" -> Err(WsErr("WsUpgradeError"))
      [] item.kind = "text" -> Ok(RecvText(item.data))
      [] item.kind = "binary" -> Ok(RecvBinary(item.data))
      [] item.kind = "close" -> RecvClose(item.code, item.reason)
      [] item.kind = "end" -> Err(WsErr("WsStreamEnded"))
      [] OTHER -> Continue

---------------------------------------------------------------------------
(* The session: one caller task, the sockets it opens, the server side *)

VARIABLES
    pc,        \* what the caller task awaits: "idle", "send", "upgrade", "handshake", "recv"
    cur,       \* the socket of the pending operation (0: none)
    cfg,       \* WebsocketConfig::connection_timeout of the pending connect
    waited,    \* how long the pending operation has been awaiting the stream
    nsock,     \* sockets opened so far
    sock,      \* socket -> "none", "live", "dropped"
    handles,   \* the sockets whose WebsocketHandle the caller holds
    inq,       \* socket -> items the transport holds for the next reads
    out,       \* socket -> frames written to the socket
    hs,        \* socket -> how its connect went (history)
    last,      \* the result of the last operation that returned
    prev,      \* what the recv before the last one returned (history)
    rid,       \* what msg.request_id() gave for the message that recv returned last
    srv,       \* the server's side of the open session
    call,      \* the caller's last call of a request method, with its arguments
    txn        \* the transaction the caller builds, signs and submits

vars == <<pc, cur, cfg, waited, nsock, sock, handles, inq, out, hs, last, prev,
          rid, srv, call, txn>>

Socks == 1..MaxSockets

DEFAULT_CONNECTION_TIMEOUT_SECS == 10

\* the timeouts a caller configures
Timeouts == {0, 1}

\* ClientMessage values the caller sends
Requests ==
    {[id |-> Some(1), method |-> "SUBSCRIBE", params |-> <<"BTC-USD@aggTrade">>],
     [id |-> None, method |-> "LIST_SUBSCRIPTIONS", params |-> <<>>]}

NoResult == [err |-> NoErr, ok |-> FALSE, msg |-> NoMsg, item |-> <<>>, sock |-> 0, op |-> ""]

Result(op, s, r, items) ==
    [err |-> r.err, ok |-> r.ok, msg |-> r.msg, item |-> items, sock |-> s, op |-> op]

Hs(state, got) == [state |-> state, got |-> got]

\* the server before it has handled a request: no topic is subscribed
NoServer ==
    [subs |-> <<>>,
     constants |-> [ok |-> FALSE, chain_id |-> [neg |-> FALSE, hi |-> 0, lo |-> 0]],
     schema |-> [kind |-> "absent", text |-> <<>>, ok |-> FALSE],
     fetched |-> [constants |-> 0, schema |-> 0]]

\* no request method has been called
NoCall ==
    [id |-> None, ok |-> FALSE, op |-> "", topics |-> <<>>, tx |-> <<>>, active |-> <<>>]

\* no transaction has been built: the fields hold zeroes and empty byte strings
NoDetails == [chain_id |-> 0, max_fee |-> 0, gas_limit |-> None, max_priority_fee_bips |-> 0]
NoUnsigned == [runtime_call |-> 0, uniqueness |-> 0, details |-> NoDetails]
NoSigned ==
    [runtime_call |-> 0, uniqueness |-> 0, details |-> NoDetails, pub_key |-> <<>>,
     signature |-> <<>>]
\* SystemTime::now() against UNIX_EPOCH: before it, or the whole milliseconds
\* since and the part of a millisecond since
Reading(ms, sub) == [ms |-> ms, sub |-> sub, before |-> FALSE]
BeforeEpoch == [ms |-> 0, sub |-> 0, before |-> TRUE]

\* the caller keeps no earlier transaction
NoKept == [has |-> FALSE, now |-> Reading(0, 0), unsigned |-> NoUnsigned]

\* op, err: the call made last and its error; now: the clock at the last
\* build_transaction; kept: an earlier unsigned transaction the caller holds;
\* wire, nenc: the last result of sign_to_base64 and the number of its calls
\* on the signed transaction; posted, posts: the body and the number of the
\* requests of the last submit_transaction. Before TradingApi::new has
\* returned a session the stage is "absent".
NoTxn ==
    [err |-> "", op |-> "", chain_id |-> 0, now |-> Reading(0, 0),
     unsigned |-> NoUnsigned, stage |-> "none", chain_hash |-> <<>>, signed |-> NoSigned,
     posted |-> <<>>, kept |-> NoKept, wire |-> <<>>, nenc |-> 0, posts |-> 0,
     ws_url |-> ""]

\* request_id has not been called on the message that recv returned last
NoRid == [v |-> None, called |-> FALSE]

Init ==
    /\ pc = "idle"
    /\ cur = 0
    /\ cfg = 0
    /\ waited = 0
    /\ nsock = 0
    /\ sock = [s \in Socks |-> "none"]
    /\ handles = {}
    /\ inq = [s \in Socks |-> <<>>]
    /\ out = [s \in Socks |-> <<>>]
    /\ hs = [s \in Socks |-> Hs("none", <<>>)]
    /\ last = NoResult
    /\ prev = ""
    /\ rid = NoRid
    /\ srv = NoServer
    /\ call = NoCall
    /\ txn = NoTxn

(* TradingApi::connect_ws_with_config *)

\* the GET with the upgrade is sent
StartConnect(t) ==
    /\ pc = "idle"
    /\ txn.stage # "absent"
    /\ nsock < MaxSockets
    /\ pc' = "send"
    /\ cfg' = t
    /\ last' = NoResult
    /\ UNCHANGED <<cur, waited, nsock, sock, handles, inq, out, hs, prev, rid, srv, call, txn>>

ConnectWsWithConfig == \E t \in Timeouts : StartConnect(t)

\* TradingApi::connect_ws
ConnectWs == StartConnect(DEFAULT_CONNECTION_TIMEOUT_SECS)

\* mutant: after a failure the upgrade request is sent again
SendUpgradeRetried ==
    /\ pc = "send"
    /\ pc' = "send"
    /\ last' = Result("connect", 0, Err(WsErr("WsUpgradeError")), <<>>)
    /\ UNCHANGED <<cur, cfg, waited, nsock, sock, handles, inq, out, hs, prev, rid, srv, call, txn>>

\* .send().await? fails: no connection was made
SendUpgradeFails ==
    /\ pc = "send"
    /\ pc' = "idle"
    /\ cfg' = 0
    /\ last' = Result("connect", 0, Err(WsErr("WsUpgradeError")), <<>>)
    /\ UNCHANGED <<cur, waited, nsock, sock, handles, inq, out, hs, prev, rid, srv, call, txn>>

\* every connect makes a connection of its own
NewSocket(n) == n + 1

\* .send().await? returns the response, which owns the new connection
SendUpgradeOk ==
    /\ pc = "send"
    /\ LET s == NewSocket(nsock) IN
        /\ nsock' = nsock + 1
        /\ cur' = s
        /\ sock' = [sock EXCEPT ![s] = "live"]
        /\ inq' = [inq EXCEPT ![s] = <<>>]
        /\ out' = [out EXCEPT ![s] = <<>>]
        /\ hs' = [hs EXCEPT ![s] = Hs("upgrading", <<>>)]
    /\ pc' = "upgrade"
    /\ UNCHANGED <<cfg, waited, handles, last, prev, rid, srv, call, txn>>

\* mutant: the handle is given out before the handshake wait
HandlesAfterUpgradeEarly(h, s) == h \cup {s}

\* the handles the caller holds once WebsocketHandle { socket } is built:
\* the new handle is a local of connect
HandlesAfterUpgrade(h, s) == h

\* response.into_websocket().await? succeeds; wait_for_connected starts
IntoWebsocketOk ==
    /\ pc = "upgrade"
    /\ handles' = HandlesAfterUpgrade(handles, cur)
    /\ hs' = [hs EXCEPT ![cur] = Hs("waiting", <<>>)]
    /\ waited' = 0
    /\ pc' = "handshake"
    /\ UNCHANGED <<cur, cfg, nsock, sock, inq, out, last, prev, rid, srv, call, txn>>

(* WebsocketHandle::wait_for_connected *)

\* mutant: any status message completes the handshake
IsConnectedAnyStatus(m) == m.variant = "Tagged" /\ m.tag = "Status"

\* ServerMessage::Tagged(TaggedMessage::Status(status)) if status.status == "connected"
IsConnected(m) ==
    /\ m.variant = "Tagged"
    /\ m.tag = "Status"
    /\ \E f \in m.fields : f.k = "status" /\ f.v = Str("connected")

\* mutant: the error does not say what was received
HandshakeResultNoDebug(r) ==
    IF ~r.ok THEN Err(r.err)
    ELSE IF r.msg.variant = "Tagged" /\ r.msg.tag = "Status"
            /\ \E f \in r.msg.fields : f.k = "status" /\ f.v = Str("connected")
         THEN Ok(NoMsg)
         ELSE Err(WsErr("WsHandshakeFailed"))

\* mutant: every failure of the handshake recv is a failed handshake
HandshakeResultWrapsError(r) ==
    IF r.ok /\ IsConnected(r.msg) THEN Ok(NoMsg)
    ELSE Err(WsHandshakeFailed(r.msg))

\* the arm of select! that recv completes
HandshakeResult(r) ==
    IF ~r.ok THEN Err(r.err)
    ELSE IF IsConnected(r.msg) THEN Ok(NoMsg)
    ELSE Err(WsHandshakeFailed(r.msg))

\* mutant: the handle is returned whatever the handshake wait gave
ConnectReturnsAlways(w, s) == {s}

\* handle.wait_for_connected(..).await?; Ok(handle)
ConnectReturns(w, s) == IF w.ok THEN {s} ELSE {}

\* a handle that is not returned is dropped, and its socket with it
SocketAfterConnect(w) == IF w.ok THEN "live" ELSE "dropped"

\* mutant: the end is taken off the stream like any other item
RestTakesEnd(q) == Tail(q)

\* the stream stays ended; every other item is taken off
Rest(q) == IF Head(q).kind = "end" THEN q ELSE Tail(q)

\* connect returns w for the socket cur
FinishConnect(w, state, got, items) ==
    /\ handles' = handles \cup ConnectReturns(w, cur)
    /\ sock' = [sock EXCEPT ![cur] = SocketAfterConnect(w)]
    /\ inq' = [inq EXCEPT ![cur] = IF w.ok THEN Rest(@) ELSE <<>>]
    /\ hs' = [hs EXCEPT ![cur] = Hs(state, IF w.ok THEN got ELSE <<>>)]
    /\ last' = Result("connect", cur, w, items)
    /\ pc' = "idle"
    /\ cur' = 0
    /\ cfg' = 0
    /\ waited' = 0
    /\ UNCHANGED <<nsock, out, prev, rid, srv, call, txn>>

\* response.into_websocket().await? fails
IntoWebsocketFails ==
    /\ pc = "upgrade"
    /\ FinishConnect(Err(WsErr("WsUpgradeError")), "failed", <<>>, <<>>)

\* recv, polled by select!, reads the next item of the stream
HandshakeRecv ==
    /\ pc = "handshake"
    /\ inq[cur] # <<>>
    /\ LET item == Head(inq[cur])
           r == RecvItem(item)
           w == HandshakeResult(r)
       IN IF r.done
          THEN FinishConnect(w, IF w.ok THEN "connected" ELSE "rejected", <<r>>, <<item>>)
          ELSE /\ inq' = [inq EXCEPT ![cur] = Tail(@)]
               /\ UNCHANGED <<pc, cur, cfg, waited, nsock, sock, handles, out, hs, last, prev, rid, srv, call, txn>>

\* mutant: the timer also bounds a steady-state recv
TimerArmedWhileReading(p) == p \in {"handshake", "recv"}

\* the operations that race a timer
TimerArmed(p) == p = "handshake"

\* Delay::new(timeout) is ready once the timeout has passed
TimerReady(w, t) == w >= t

\* the timeout arm of select!
TimerFires ==
    /\ TimerArmed(pc)
    /\ TimerReady(waited, cfg)
    /\ IF pc = "handshake"
       THEN FinishConnect(Err(WsErr("WsConnectionTimeout")), "timeout", <<>>, <<>>)
       ELSE /\ last' = Result(pc, cur, Err(WsErr("WsConnectionTimeout")), <<>>)
            /\ pc' = "idle"
            /\ cur' = 0
            /\ waited' = 0
            /\ UNCHANGED <<cfg, nsock, sock, handles, inq, out, hs, prev, rid, srv, call, txn>>

\* mutant: the connection of a cancelled connect is kept
SocketAfterCancelKept(st) == st

\* a connection that a dropped future owned
SocketAfterCancel(st) == "dropped"

\* the future of connect is dropped at one of its awaits
CancelConnect ==
    /\ pc \in {"send", "upgrade", "handshake"}
    /\ IF pc = "send"
       THEN UNCHANGED <<sock, inq, hs>>
       ELSE /\ sock' = [sock EXCEPT ![cur] = SocketAfterCancel(@)]
            /\ inq' = [inq EXCEPT ![cur] = <<>>]
            /\ hs' = [hs EXCEPT ![cur] = Hs("cancelled", <<>>)]
    /\ pc' = "idle"
    /\ cur' = 0
    /\ cfg' = 0
    /\ waited' = 0
    /\ last' = NoResult
    /\ UNCHANGED <<nsock, handles, out, prev, rid, srv, call, txn>>

(* WebsocketHandle::recv and send on a handle the caller holds *)

StartRecv ==
    \E s \in handles :
        /\ pc = "idle"
        /\ pc' = "recv"
        /\ cur' = s
        /\ waited' = 0
        /\ last' = NoResult
        /\ prev' = IF last.op = "recv" /\ last.sock = s
                   THEN (IF last.ok THEN last.msg.variant ELSE last.err.kind)
                   ELSE ""
        /\ rid' = NoRid
        /\ UNCHANGED <<cfg, nsock, sock, handles, inq, out, hs, srv, call, txn>>

\* mutant: a ping frame of the server is answered with a frame
RecvStepAnswersPing ==
    /\ pc = "recv"
    /\ inq[cur] # <<>>
    /\ LET item == Head(inq[cur])
           r == RecvItem(item)
       IN /\ inq' = [inq EXCEPT ![cur] = Rest(@)]
          /\ out' = IF item.kind = "ping"
                    THEN [out EXCEPT ![cur] =
                             Append(@, [kind |-> "text",
                                        json |-> [id |-> None, method |-> "PING",
                                                  params |-> <<>>]])]
                    ELSE out
          /\ IF r.done
             THEN /\ last' = Result("recv", cur, r, <<item>>)
                  /\ pc' = "idle"
                  /\ cur' = 0
                  /\ waited' = 0
             ELSE UNCHANGED <<pc, cur, waited, last>>
    /\ UNCHANGED <<cfg, nsock, sock, handles, hs, prev, rid, srv, call, txn>>

RecvStep ==
    /\ pc = "recv"
    /\ inq[cur] # <<>>
    /\ LET item == Head(inq[cur])
           r == RecvItem(item)
       IN /\ inq' = [inq EXCEPT ![cur] = Rest(@)]
          /\ IF r.done
             THEN /\ last' = Result("recv", cur, r, <<item>>)
                  /\ pc' = "idle"
                  /\ cur' = 0
                  /\ waited' = 0
             ELSE UNCHANGED <<pc, cur, waited, last>>
    /\ UNCHANGED <<cfg, nsock, sock, handles, out, hs, prev, rid, srv, call, txn>>

\* serde_json::to_string(&msg), then Message::Text
TextFrame(m) == [kind |-> "text", json |-> m]

\* send takes &mut self: only a holder of the handle calls it
MaySend(s) == s \in handles

\* the frames written so far
Written == {x \in Socks \X (1..MaxSent) : x[2] <= Len(out[x[1]])}

Send ==
    \E s \in Socks, m \in Requests :
        /\ pc = "idle"
        /\ MaySend(s)
        /\ Cardinality(Written) < MaxSent
        /\ out' = [out EXCEPT ![s] = Append(@, TextFrame(m))]
        /\ last' = Result("send", s, Ok(NoMsg), <<>>)
        /\ UNCHANGED <<pc, cur, cfg, waited, nsock, sock, handles, inq, hs, prev, rid, srv, call, txn>>

\* self.socket.send(..).await? fails: nothing is written
SendFails ==
    \E s \in Socks :
        /\ pc = "idle"
        /\ MaySend(s)
        /\ last' = Result("send", s, Err(WsErr("WsUpgradeError")), <<>>)
        /\ UNCHANGED <<pc, cur, cfg, waited, nsock, sock, handles, inq, out, hs, prev, rid, srv, call, txn>>

\* the caller drops a handle, and the socket with it
DropHandle ==
    \E s \in handles :
        /\ pc = "idle"
        /\ handles' = handles \ {s}
        /\ sock' = [sock EXCEPT ![s] = "dropped"]
        /\ inq' = [inq EXCEPT ![s] = <<>>]
        /\ out' = [out EXCEPT ![s] = <<>>]
        /\ hs' = [hs EXCEPT ![s] = Hs("dropped", <<>>)]
        /\ last' = NoResult
        /\ prev' = ""
        /\ UNCHANGED <<pc, cur, cfg, waited, nsock, rid, srv, call, txn>>

(* The environment *)

\* nothing follows the end of the stream
Ended(q) == IF q = <<>> THEN FALSE ELSE q[Len(q)].kind = "end"

\* the stream that the caller reads yields its next item
StreamYields ==
    \E item \in SessionItems :
        /\ pc \in {"handshake", "recv"}
        /\ inq[cur] = <<>>
        /\ inq' = [inq EXCEPT ![cur] = <<item>>]
        /\ UNCHANGED <<pc, cur, cfg, waited, nsock, sock, handles, out, hs, last, prev, rid, srv, call, txn>>

\* time passes while the caller awaits the stream
Tick ==
    /\ pc \in {"handshake", "recv"}
    /\ waited < MaxTime
    /\ waited' = waited + 1
    /\ UNCHANGED <<pc, cur, cfg, nsock, sock, handles, inq, out, hs, last, prev, rid, srv, call, txn>>

Next ==
    \/ ConnectWsWithConfig
    \/ ConnectWs
    \/ SendUpgradeFails
    \/ SendUpgradeOk
    \/ IntoWebsocketOk
    \/ IntoWebsocketFails
    \/ HandshakeRecv
    \/ TimerFires
    \/ CancelConnect
    \/ StartRecv
    \/ RecvStep
    \/ Send
    \/ SendFails
    \/ DropHandle
    \/ StreamYields
    \/ Tick

Spec == Init /\ [][Next]_vars

---------------------------------------------------------------------------
(* recv on an open session, the transport buffering what the server sends *)

\* the state in which connect has returned the handle of socket 1
InitRecv ==
    /\ pc = "idle"
    /\ cur = 0
    /\ cfg = 0
    /\ waited = 0
    /\ nsock = 1
    /\ sock = [s \in Socks |-> IF s = 1 THEN "live" ELSE "none"]
    /\ handles = {1}
    /\ inq = [s \in Socks |-> <<>>]
    /\ out = [s \in Socks |-> <<>>]
    /\ hs = [s \in Socks |->
                IF s = 1 THEN Hs("connected", <<RecvItem(Text(ConnectedDoc))>>)
                ELSE Hs("none", <<>>)]
    /\ last = Result("connect", 1, Ok(NoMsg), <<Text(ConnectedDoc)>>)
    /\ prev = ""
    /\ rid = NoRid
    /\ srv = NoServer
    /\ call = NoCall
    /\ txn = NoTxn

\* the transport takes one more item from the server
ServerSends ==
    \E s \in Socks :
        /\ sock[s] = "live"
        /\ Len(inq[s]) < MaxQueue
        /\ ~Ended(inq[s])
        /\ \E item \in (IF inq[s] = <<>> THEN AllItems ELSE FollowItems) :
               inq' = [inq EXCEPT ![s] = Append(@, item)]
        /\ UNCHANGED <<pc, cur, cfg, waited, nsock, sock, handles, out, hs, last, prev, rid, srv, call, txn>>

NextRecv ==
    \/ StartRecv
    \/ RecvStep
    \/ ServerSends

SpecRecv == InitRecv /\ [][NextRecv]_vars

---------------------------------------------------------------------------
(* Classification of the documented shapes, and ServerMessage::request_id *)

\* doc without its member k
Without(doc, k) == SelectSeq(doc, LAMBDA c : ~(c.kind = "member" /\ c.k = k))

\* doc with the member m added at its end
With(doc, m) == SubSeq(doc, 1, Len(doc) - 1) \o <<m, RB>>

\* doc with an id, if it has none
WithId(doc) == IF Count(doc, "id") = 0 THEN With(doc, M("id", Num(9))) ELSE doc

\* doc with the event type e
Retag(doc, e) ==
    [i \in 1..Len(doc) |->
        IF doc[i].kind = "member" /\ doc[i].k = "e" THEN M("e", Str(e)) ELSE doc[i]]

\* the members of d1, then those of d2 whose key d1 does not have
Union(d1, d2) ==
    SubSeq(d1, 1, Len(d1) - 1)
    \o SelectSeq(d2, LAMBDA c : c.kind = "member" /\ Count(d1, c.k) = 0)
    \o <<RB>>

\* one well-formed sample of every documented shape
ShapeDocs ==
    {ConnectedDoc, PongDoc, TaggedErrorDoc, SubscribeDoc, UnsubscribeDoc, ListDoc,
     DepthUpdateDoc, AggTradeDoc, BookTickerDoc, MarkPriceDoc, ForceOrderDoc,
     OrderUpdateDoc}

EventTypes ==
    {"status", "pong", "error", "subscribe", "unsubscribe", "list_subscriptions",
     "depthUpdate", "aggTrade", "bookTicker", "markPriceUpdate", "liquidation",
     "orderTradeUpdate"}

\* samples that match more than one form
OverlapDocs ==
    {Union(AggTradeDoc, MarkPriceDoc), Union(MarkPriceDoc, AggTradeDoc),
     Union(MarkPriceDoc, OrderErrorDoc), Union(OrderUpdateDoc, OrderErrorDoc),
     Union(SubscribeDoc, OrderErrorDoc), Union(PongDoc, OrderErrorDoc),
     Union(PongDoc, MarkPriceDoc), Union(DepthUpdateDoc, BookTickerDoc),
     Union(BookTickerDoc, DepthUpdateDoc), BothOrdersDoc}

\* the objects the server sends in the model of classification
ClassifyPayloads ==
    ShapeDocs \cup OverlapDocs \cup {OrderErrorDoc}
    \cup {Retag(d, e) : d \in ShapeDocs \cup OverlapDocs, e \in EventTypes}
    \cup {Without(d, "e") : d \in ShapeDocs \cup OverlapDocs}
    \cup {Without(d, "id") : d \in ShapeDocs \cup {OrderErrorDoc}}
    \cup {WithId(d) : d \in ShapeDocs}
    \cup {Without(d, "E") : d \in ShapeDocs}

\* mutant: only tagged messages give their id
RequestIdTaggedOnly(m) ==
    IF m.variant = "Tagged"
        /\ m.tag \in {"Pong", "Error", "Subscribe", "Unsubscribe", "ListSubscriptions"}
    THEN m.id
    ELSE None

\* ServerMessage::request_id
request_id(m) ==
    IF m.variant = "Tagged" THEN
        IF m.tag \in {"Pong", "Error", "Subscribe", "Unsubscribe", "ListSubscriptions"}
        THEN m.id
        ELSE None
    ELSE IF m.variant = "Error" THEN m.id
    ELSE None

\* the stream that the caller reads yields one object as a text frame
ServerSendsShape ==
    \E d \in ClassifyPayloads :
        /\ pc = "recv"
        /\ inq[cur] = <<>>
        /\ inq' = [inq EXCEPT ![cur] = <<Text(d)>>]
        /\ UNCHANGED <<pc, cur, cfg, waited, nsock, sock, handles, out, hs, last, prev,
                       rid, srv, call, txn>>

\* the caller asks the message that recv returned for its request id
MatchResponse ==
    /\ pc = "idle"
    /\ last.op = "recv"
    /\ last.ok
    /\ rid' = [v |-> request_id(last.msg), called |-> TRUE]
    /\ UNCHANGED <<pc, cur, cfg, waited, nsock, sock, handles, inq, out, hs, last, prev,
                   srv, call, txn>>

NextClassify ==
    \/ ServerSendsShape
    \/ StartRecv
    \/ RecvStep
    \/ MatchResponse

SpecClassify == InitRecv /\ [][NextClassify]_vars

---------------------------------------------------------------------------
(* Transactions: build, sign, encode.  A byte is a number in 0..255; of a
   field wider than a byte the model has one number. *)

\* chain_hash: [u8; 32]
ChainHashLen == 32
\* signature: [u8; 64]
SignatureLen == 64
\* pub_key: [u8; 32]
PublicKeyLen == 32

\* the hash whose byte i is b, every other byte 0
HashOf(i, b) == [j \in 1..ChainHashLen |-> IF j = i THEN b ELSE 0]

\* the chain hashes of the sessions, the secret keys, instructions, fees and
\* clock readings
ChainHashes == {HashOf(1, 1), HashOf(ChainHashLen, 1)}
SecretKeys == {1, 2}
CallMessages == {1, 2}
Fees == {0, 1}
Clock == {BeforeEpoch, Reading(1, 0)}

\* mutant: the token counts down as the clock goes on
AsMillisCountdown(now) == 10 - now.ms

\* mutant: the token has the part of a millisecond too
AsTicks(now) == now.ms * 2 + now.sub

\* duration_since(UNIX_EPOCH).as_millis() as u64: the whole milliseconds of a
\* reading that is not before the epoch (readings of the model are below 2^64)
as_millis(now) == now.ms

\* Keypair::public_key: the 32 bytes of the verifying key of the secret key
PublicKey(sk) == [j \in 1..PublicKeyLen |-> IF j = 1 THEN 100 + sk ELSE 0]

\* Keypair::sign: the 64 bytes of the signature, a function of the secret
\* key and of the message that differs for any two keys or messages
Sign(sk, message) ==
    [j \in 1..SignatureLen |->
        IF j = 1 THEN sk
        ELSE IF j - 1 <= Len(message) THEN message[j - 1]
        ELSE 255]

\* the verification of a signature under a public key: it holds of the
\* signatures that the owner of the key made of this very message
Verify(pk, message, sig) ==
    \E sk \in SecretKeys : PublicKey(sk) = pk /\ Sign(sk, message) = sig

\* UnsignedTransaction { runtime_call, uniqueness, details }
UnsignedTransaction(call_msg, timestamp, chain_id, max_fee) ==
    [runtime_call |-> call_msg,
     uniqueness |-> timestamp,
     details |-> [chain_id |-> chain_id, max_fee |-> max_fee, gas_limit |-> None,
                  max_priority_fee_bips |-> 0]]

\* borsh::to_vec(&tx): the fields in their order; an enum is its variant
\* index and its payload, None is the byte 0
BorshUnsigned(tx) ==
    <<0, tx.runtime_call, 0, tx.uniqueness, tx.details.chain_id, tx.details.max_fee,
      IF tx.details.gas_limit.some THEN 1 ELSE 0, tx.details.max_priority_fee_bips>>

\* mutant: the chain hash is not appended
SigningDataNoHash(tx, chain_hash) == BorshUnsigned(tx)

\* mutant: the hash of one chain is appended for every chain
SigningDataFixedHash(tx, chain_hash) == BorshUnsigned(tx) \o HashOf(1, 1)

\* sign_transaction: borsh::to_vec(&tx), then data.extend_from_slice(chain_hash)
SigningData(tx, chain_hash) == BorshUnsigned(tx) \o chain_hash

\* mutant: a transaction is returned that carries no signature
SignTransactionPartial(tx, keypair, chain_hash) ==
    [err |-> "", ok |-> TRUE,
     tx |-> [runtime_call |-> tx.runtime_call, uniqueness |-> tx.uniqueness,
             details |-> tx.details, pub_key |-> PublicKey(keypair), signature |-> <<>>]]

\* TradingApi::sign_transaction: [ok, tx, err]
sign_transaction(tx, keypair, chain_hash) ==
    LET sig_bytes == Sign(keypair, SigningData(tx, chain_hash))
        pk_bytes == PublicKey(keypair)
    IN  IF Len(sig_bytes) # SignatureLen
        THEN [err |-> "InvalidSignatureLength", ok |-> FALSE]
        ELSE IF Len(pk_bytes) # PublicKeyLen
        THEN [err |-> "InvalidPublicKeyLength", ok |-> FALSE]
        ELSE [err |-> "", ok |-> TRUE,
              tx |-> [runtime_call |-> tx.runtime_call, uniqueness |-> tx.uniqueness,
                      details |-> tx.details, pub_key |-> pk_bytes,
                      signature |-> sig_bytes]]

\* borsh::to_vec(&signed): the variant index of V0, then the fields of Version0
BorshSigned(signed) ==
    <<0>> \o BorshUnsigned(signed) \o signed.pub_key \o signed.signature

\* BASE64.encode: three bytes give four characters, a character being its
\* index in the STANDARD alphabet and 64 the padding '='
RECURSIVE Base64(_)
Base64(bytes) ==
    IF Len(bytes) = 0 THEN <<>>
    ELSE IF Len(bytes) = 1 THEN
        <<bytes[1] \div 4, (bytes[1] % 4) * 16, 64, 64>>
    ELSE IF Len(bytes) = 2 THEN
        <<bytes[1] \div 4, (bytes[1] % 4) * 16 + bytes[2] \div 16,
          (bytes[2] % 16) * 4, 64>>
    ELSE <<bytes[1] \div 4, (bytes[1] % 4) * 16 + bytes[2] \div 16,
           (bytes[2] % 16) * 4 + bytes[3] \div 64, bytes[3] % 64>>
         \o Base64(SubSeq(bytes, 4, Len(bytes)))

\* mutant: the output depends on the calls made before
SignToBase64Counted(signed) == Base64(BorshSigned(signed) \o <<txn.nenc>>)

\* TradingApi::sign_to_base64
sign_to_base64(signed) == Base64(BorshSigned(signed))

---------------------------------------------------------------------------
(* Topics and the request methods of WebsocketHandle *)

\* mutant: every depth renders as the default level
DepthAsStrDefault(d) == "10"

\* OrderbookDepth::as_str
depth_as_str(d) ==
    CASE d = "D5" -> "5"
      [] d = "D10" -> "10"
      [] d = "D20" -> "20"

\* KlineInterval::as_str
interval_as_str(i) ==
    CASE i = "M1" -> "1m"
      [] i = "M5" -> "5m"
      [] i = "M15" -> "15m"
      [] i = "M30" -> "30m"
      [] i = "H1" -> "1h"
      [] i = "H4" -> "4h"
      [] i = "D1" -> "1d"

\* a Topic value: the variant, its symbol and its depth or interval
Topic(kind, symbol, arg) == [kind |-> kind, symbol |-> symbol, arg |-> arg]

\* mutant: the interval is joined without the underscore
ToStringKlineBare(t) ==
    CASE t.kind = "AggTrade" -> t.symbol \o "@aggTrade"
      [] t.kind = "Depth" -> t.symbol \o "@depth" \o depth_as_str(t.arg)
      [] t.kind = "BookTicker" -> t.symbol \o "@bookTicker"
      [] t.kind = "MarkPrice" -> t.symbol \o "@markPrice"
      [] t.kind = "Kline" -> t.symbol \o "@kline" \o interval_as_str(t.arg)
      [] t.kind = "ForceOrder" -> t.symbol \o "@forceOrder"
      [] t.kind = "AllTickers" -> "!ticker@arr"
      [] t.kind = "AllMarkPrices" -> "!markPrice@arr"
      [] t.kind = "AllBookTickers" -> "!bookTicker@arr"
      [] t.kind = "AllForceOrders" -> "!forceOrder@arr"

\* impl fmt::Display for Topic
to_string(t) ==
    CASE t.kind = "AggTrade" -> t.symbol \o "@aggTrade"
      [] t.kind = "Depth" -> t.symbol \o "@depth" \o depth_as_str(t.arg)
      [] t.kind = "BookTicker" -> t.symbol \o "@bookTicker"
      [] t.kind = "MarkPrice" -> t.symbol \o "@markPrice"
      [] t.kind = "Kline" -> t.symbol \o "@kline_" \o interval_as_str(t.arg)
      [] t.kind = "ForceOrder" -> t.symbol \o "@forceOrder"
      [] t.kind = "AllTickers" -> "!ticker@arr"
      [] t.kind = "AllMarkPrices" -> "!markPrice@arr"
      [] t.kind = "AllBookTickers" -> "!bookTicker@arr"
      [] t.kind = "AllForceOrders" -> "!forceOrder@arr"

\* mutant: a topic that was already given is dropped
ParamsUnique(topics) ==
    LET keep == {i \in 1..Len(topics) : \A j \in 1..(i - 1) : topics[j] # topics[i]}
        F[i \in 0..Len(topics)] ==
            IF i = 0 THEN <<>>
            ELSE IF i \in keep THEN Append(F[i - 1], to_string(topics[i])) ELSE F[i - 1]
    IN F[Len(topics)]

\* topics.into_iter().map(|t| t.to_string()).collect()
Params(topics) == [i \in 1..Len(topics) |-> to_string(topics[i])]

\* mutant: the id is not passed on
SubscribeNoId(topics, id) == [id |-> None, method |-> "SUBSCRIBE", params |-> Params(topics)]

\* ClientMessage::Subscribe { id, params }
subscribe(topics, id) == [id |-> id, method |-> "SUBSCRIBE", params |-> Params(topics)]

\* mutant: topics that the session does not hold are left out of the request
UnsubscribeActiveOnly(topics, id) ==
    [id |-> id, method |-> "UNSUBSCRIBE",
     params |-> Params(SelectSeq(topics,
                    LAMBDA t : \E j \in 1..Len(srv.subs) : srv.subs[j] = to_string(t)))]

\* ClientMessage::Unsubscribe { id, params }
unsubscribe(topics, id) == [id |-> id, method |-> "UNSUBSCRIBE", params |-> Params(topics)]

\* mutant: the id is not passed on
ListSubscriptionsNoId(id) == [id |-> None, method |-> "LIST_SUBSCRIPTIONS", params |-> <<>>]

\* ClientMessage::ListSubscriptions { id }
list_subscriptions(id) == [id |-> id, method |-> "LIST_SUBSCRIPTIONS", params |-> <<>>]

\* ClientMessage::Ping { id }
ping(id) == [id |-> id, method |-> "PING", params |-> <<>>]


\* mutant: the transaction string is not passed on
OrderParamsEmpty(tx) == [tx |-> <<>>]

\* OrderParams { tx: tx.into() }: the params object, holding the one field tx
OrderParams(tx) == [tx |-> tx]

\* ClientMessage::OrderPlace { id, params }
order_place(tx, id) == [id |-> id, method |-> "ORDER_PLACE", params |-> OrderParams(tx)]

\* ClientMessage::OrderCancel { id, params }
order_cancel(tx, id) == [id |-> id, method |-> "ORDER_CANCEL", params |-> OrderParams(tx)]

\* the market data the server pushes to a subscriber
MarketDocs == {AggTradeDoc}

\* the topics, ids and transaction strings a caller passes
TopicSamples == {Topic("AggTrade", "BTC-USD", ""), Topic("Depth", "ETH-USD", "D10")}
TopicLists == UNION {[1..n -> TopicSamples] : n \in 0..MaxTopics}
Ids == {None, Some(2)}
\* "AQID", and a string that is no base64
Txs == {<<0, 16, 8, 3>>, <<64, 0>>}

\* the id a caller gives its order requests
OrderIds == {Some(1)}

\* the strings a caller passes to order_place and order_cancel: any string,
\* and sign_to_base64 of the transaction it has signed
WireStrings ==
    Txs \cup (IF txn.stage \in {"signed", "submitted"}
              THEN {sign_to_base64(txn.signed)} ELSE {})

\* the server's subscriptions after it has handled the request m
Apply(subs, m) ==
    LET given(x) == \E i \in 1..Len(m.params) : m.params[i] = x
        F[i \in 0..Len(m.params)] ==
            IF i = 0 THEN subs
            ELSE IF \E j \in 1..Len(F[i - 1]) : F[i - 1][j] = m.params[i]
                 THEN F[i - 1]
                 ELSE Append(F[i - 1], m.params[i])
    IN CASE m.method = "SUBSCRIBE" -> F[Len(m.params)]
         [] m.method = "UNSUBSCRIBE" -> SelectSeq(subs, LAMBDA x : ~given(x))
         [] OTHER -> subs

\* the subscriptions once the server has handled every frame written so far
Active ==
    LET F[i \in 0..Len(out[1])] ==
            IF i = 0 THEN srv.subs ELSE Apply(F[i - 1], out[1][i].json)
    IN F[Len(out[1])]

\* the answers of the server that the caller has not read yet
Unanswered == {i \in 1..Len(inq[1]) : inq[1][i].data \notin MarketDocs}

\* a request method: self.send(msg).await; the socket write succeeds or fails
Request(op, m, topics, id, tx) ==
    \E s \in handles, written \in BOOLEAN :
        /\ pc = "idle"
        /\ Cardinality(Written) + Cardinality(Unanswered) < MaxSent
        /\ out' = IF written THEN [out EXCEPT ![s] = Append(@, TextFrame(m))] ELSE out
        /\ last' = Result("send", s,
                          IF written THEN Ok(NoMsg) ELSE Err(WsErr("WsUpgradeError")), <<>>)
        /\ call' = [id |-> id, ok |-> written, op |-> op, topics |-> topics,
                    tx |-> tx, active |-> Active]
        /\ UNCHANGED <<pc, cur, cfg, waited, nsock, sock, handles, inq, hs, prev, rid, srv,
                       txn>>

\* WebsocketHandle::subscribe
Subscribe(lists, ids) ==
    \E topics \in lists, id \in ids :
        Request("subscribe", subscribe(topics, id), topics, id, <<>>)

\* WebsocketHandle::unsubscribe
Unsubscribe(lists, ids) ==
    \E topics \in lists, id \in ids :
        Request("unsubscribe", unsubscribe(topics, id), topics, id, <<>>)

\* WebsocketHandle::list_subscriptions
ListSubscriptions(ids) ==
    \E id \in ids : Request("list_subscriptions", list_subscriptions(id), <<>>, id, <<>>)

\* WebsocketHandle::order_place
OrderPlace ==
    \E tx \in WireStrings, id \in OrderIds :
        Request("order_place", order_place(tx, id), <<>>, id, tx)

\* WebsocketHandle::order_cancel
OrderCancel ==
    \E tx \in WireStrings, id \in OrderIds :
        Request("order_cancel", order_cancel(tx, id), <<>>, id, tx)

\* WebsocketHandle::send of a ping
SendPing(ids) == \E id \in ids : Request("ping", ping(id), <<>>, id, <<>>)

\* the server reads the next frame and handles the request
ServerTakes ==
    /\ out[1] # <<>>
    /\ out' = [out EXCEPT ![1] = Tail(@)]
    /\ srv' = [srv EXCEPT !.subs = Apply(srv.subs, Head(out[1]).json)]
    /\ UNCHANGED <<pc, cur, cfg, waited, nsock, sock, handles, inq, hs, last, prev, rid,
                   call, txn>>

NextCalls ==
    \/ Subscribe(TopicLists, Ids)
    \/ Unsubscribe(TopicLists, Ids)
    \/ ListSubscriptions(Ids)
    \/ SendPing(Ids)
    \/ ServerTakes

SpecCalls == InitRecv /\ [][NextCalls]_vars

---------------------------------------------------------------------------
(* The session against a server that answers every request with its id *)

\* the calls of the integration tests: two distinct topics, ids 1 and 2
TestLists == {<<Topic("AggTrade", "BTC-USD", ""), Topic("Depth", "ETH-USD", "D10")>>}
TestIds == {Some(1), Some(2)}

\* the id member of an answer: the id of the request, if it has one
IdMember(m) == IF m.id.some THEN <<M("id", Num(m.id.v))>> ELSE <<>>

\* the result the server sends for the request m, subs being its subscriptions
ResultAnswer(m, subs) ==
    CASE m.method = "SUBSCRIBE" ->
            <<LB, M("e", Str("subscribe"))>> \o IdMember(m)
                \o <<M("E", Num(1)), M("result", Str("success")), RB>>
      [] m.method = "UNSUBSCRIBE" ->
            <<LB, M("e", Str("unsubscribe"))>> \o IdMember(m)
                \o <<M("E", Num(1)), M("result", Str("success")), RB>>
      [] m.method = "LIST_SUBSCRIPTIONS" ->
            <<LB, M("e", Str("list_subscriptions"))>> \o IdMember(m)
                \o <<M("E", Num(1)), M("result", Arr(subs)), RB>>
      [] m.method = "PING" ->
            <<LB, M("e", Str("pong"))>> \o IdMember(m) \o <<M("E", Num(1)), RB>>

\* the error the server sends for the request m
ErrorAnswer(m) ==
    <<LB, M("e", Str("error"))>> \o IdMember(m)
        \o <<M("E", Num(1)), M("error", Obj("error")), RB>>

\* the server reads the next frame, handles the request and answers it with
\* the id of the request; it may refuse an unsubscribe
ServerAnswers ==
    /\ out[1] # <<>>
    /\ LET m == Head(out[1]).json IN
       \E refuse \in (IF m.method = "UNSUBSCRIBE" THEN BOOLEAN ELSE {FALSE}) :
          LET subs == IF refuse THEN srv.subs ELSE Apply(srv.subs, m) IN
          /\ srv' = [srv EXCEPT !.subs = subs]
          /\ inq' = [inq EXCEPT ![1] =
                        Append(@, Text(IF refuse THEN ErrorAnswer(m)
                                       ELSE ResultAnswer(m, subs)))]
    /\ out' = [out EXCEPT ![1] = Tail(@)]
    /\ UNCHANGED <<pc, cur, cfg, waited, nsock, sock, handles, hs, last, prev, rid, call,
                   txn>>

\* the server pushes market data
ServerPushes ==
    \E d \in MarketDocs :
        /\ inq[1] = <<>>
        /\ inq' = [inq EXCEPT ![1] = <<Text(d)>>]
        /\ UNCHANGED <<pc, cur, cfg, waited, nsock, sock, handles, out, hs, last, prev,
                       rid, srv, call, txn>>

NextEcho ==
    \/ Subscribe(TestLists, TestIds)
    \/ Unsubscribe(TestLists, TestIds)
    \/ ListSubscriptions(TestIds)
    \/ SendPing(TestIds)
    \/ ServerAnswers
    \/ ServerPushes
    \/ StartRecv
    \/ RecvStep

\* the server answers every request, and the caller keeps calling recv
SpecEcho ==
    /\ InitRecv
    /\ [][NextEcho]_vars
    /\ WF_vars(ServerAnswers)
    /\ WF_vars(StartRecv)
    /\ WF_vars(RecvStep)


---------------------------------------------------------------------------
(* Transactions over the two transports: REST submit_tx and the WebSocket *)

ChainIds == {1}

InitTx ==
    /\ pc = "idle"
    /\ cur = 0
    /\ cfg = 0
    /\ waited = 0
    /\ nsock = 1
    /\ sock = [s \in Socks |-> IF s = 1 THEN "live" ELSE "none"]
    /\ handles = {1}
    /\ inq = [s \in Socks |-> <<>>]
    /\ out = [s \in Socks |-> <<>>]
    /\ hs = [s \in Socks |->
                IF s = 1 THEN Hs("connected", <<RecvItem(Text(ConnectedDoc))>>)
                ELSE Hs("none", <<>>)]
    /\ last = Result("connect", 1, Ok(NoMsg), <<Text(ConnectedDoc)>>)
    /\ prev = ""
    /\ rid = NoRid
    /\ srv = NoServer
    /\ call = NoCall
    /\ \E c \in ChainIds, h \in ChainHashes :
           txn = [NoTxn EXCEPT !.chain_id = c, !.chain_hash = h]

\* mutant: the chain hash is not the one of the handshake
ChainHashOther(api) == HashOf(2, 7)

\* TradingApi::chain_id, TradingApi::chain_hash
ChainIdOf(api) == api.chain_id
ChainHashOf(api) == api.chain_hash

\* mutant: a clock before the epoch is read as the epoch
BuildTransactionAtEpoch(chain_id, call_msg, max_fee, now) ==
    [err |-> "", ok |-> TRUE,
     tx |-> UnsignedTransaction(call_msg, as_millis(now), chain_id, max_fee)]

\* TradingApi::build_transaction: [ok, tx, err]
build_transaction(chain_id, call_msg, max_fee, now) ==
    IF now.before
    THEN [err |-> "SystemTimeError", ok |-> FALSE, tx |-> NoUnsigned]
    ELSE [err |-> "", ok |-> TRUE,
          tx |-> UnsignedTransaction(call_msg, as_millis(now), chain_id, max_fee)]

\* a call of build_transaction at one of the clock readings; the caller has
\* the transaction built last
BuildAt(clock) ==
    \E call_msg \in CallMessages, max_fee \in Fees, now \in clock :
        /\ txn.stage # "absent"
        /\ LET r == build_transaction(ChainIdOf(txn), call_msg, max_fee, now) IN
               txn' = IF r.ok
                      THEN [txn EXCEPT !.stage = "built", !.err = "", !.op = "build",
                                       !.now = now, !.unsigned = r.tx,
                                       !.signed = NoSigned, !.posted = <<>>,
                                       !.wire = <<>>, !.nenc = 0, !.posts = 0]
                      ELSE [txn EXCEPT !.err = r.err, !.op = "build", !.now = now]
        /\ UNCHANGED <<pc, cur, cfg, waited, nsock, sock, handles, inq, out, hs, last,
                       prev, rid, srv, call>>

BuildTransaction == BuildAt(Clock)

\* the caller after sign_transaction has returned r
SignRecord(r) ==
    IF r.ok
    THEN [txn EXCEPT !.stage = "signed", !.err = "", !.op = "sign", !.signed = r.tx]
    ELSE [txn EXCEPT !.err = r.err, !.op = "sign"]

\* TradingApi::sign_transaction, of the transaction built last
SignTransaction ==
    \E keypair \in SecretKeys :
        /\ txn.stage = "built"
        /\ txn' = SignRecord(sign_transaction(txn.unsigned, keypair, ChainHashOf(txn)))
        /\ UNCHANGED <<pc, cur, cfg, waited, nsock, sock, handles, inq, out, hs, last,
                       prev, rid, srv, call>>

\* TradingApi::submit_transaction: the body is posted, the endpoint answers
\* or the request fails
SubmitTransaction ==
    \E answered \in BOOLEAN :
        /\ txn.stage = "signed"
        /\ LET body == sign_to_base64(txn.signed) IN
               txn' = [txn EXCEPT !.stage = "submitted", !.posted = body,
                                  !.posts = @ + 1, !.op = "submit",
                                  !.err = IF answered THEN "" ELSE "ApiError"]
        /\ UNCHANGED <<pc, cur, cfg, waited, nsock, sock, handles, inq, out, hs, last,
                       prev, rid, srv, call>>

NextTx ==
    \/ BuildTransaction
    \/ SignTransaction
    \/ SubmitTransaction
    \/ OrderPlace
    \/ OrderCancel
    \/ ServerTakes

SpecTx == InitTx /\ [][NextTx]_vars

---------------------------------------------------------------------------
(* TradingApi::new: the URL, the constants endpoint, the schema endpoint *)

\* an integer of the constants response: its sign, its part above 64 bits
\* (in units of 2^64) and its low 64 bits
Wide(neg, hi, lo) == [neg |-> neg, hi |-> hi, lo |-> lo]

\* mutant: the integer is cut to its low 64 bits
TryFromTruncating(v) == [v |-> v.lo, ok |-> TRUE]

\* u64::try_from
try_from(v) ==
    IF v.neg \/ v.hi # 0 THEN [v |-> 0, ok |-> FALSE] ELSE [v |-> v.lo, ok |-> TRUE]

\* the hexadecimal digits, a digit's value being its place less one; the
\* capital digits after the small ones
HexDigits ==
    <<"0", "1", "2", "3", "4", "5", "6", "7", "8", "9", "a", "b", "c", "d", "e", "f">>
HexCapitals == <<"A", "B", "C", "D", "E", "F">>

IsHexDigit(c) ==
    \/ \E i \in 1..Len(HexDigits) : HexDigits[i] = c
    \/ \E i \in 1..Len(HexCapitals) : HexCapitals[i] = c

HexValue(c) ==
    IF \E i \in 1..Len(HexDigits) : HexDigits[i] = c
    THEN (CHOOSE i \in 1..Len(HexDigits) : HexDigits[i] = c) - 1
    ELSE (CHOOSE i \in 1..Len(HexCapitals) : HexCapitals[i] = c) + 9

\* str::replace("0x", ""): every occurrence is taken out, from the left
RECURSIVE Replace0x(_)
Replace0x(text) ==
    IF Len(text) < 2 THEN text
    ELSE IF text[1] = "0" /\ text[2] = "x" THEN Replace0x(SubSeq(text, 3, Len(text)))
    ELSE <<text[1]>> \o Replace0x(Tail(text))

\* hex::decode: [ok, bytes, err]
hex_decode(text) ==
    IF Len(text) % 2 # 0 THEN [err |-> "Odd number of digits", ok |-> FALSE, bytes |-> <<>>]
    ELSE IF \E i \in 1..Len(text) : ~IsHexDigit(text[i])
    THEN [err |-> "Invalid character", ok |-> FALSE, bytes |-> <<>>]
    ELSE [err |-> "", ok |-> TRUE,
          bytes |-> [i \in 1..(Len(text) \div 2) |->
                        HexValue(text[2 * i - 1]) * 16 + HexValue(text[2 * i])]]

\* Url::parse and the match on the scheme: [ok, ws_url]
ws_url_of(url) ==
    IF ~url.parses THEN [ok |-> FALSE, ws_url |-> ""]
    ELSE IF url.scheme = "https" THEN [ok |-> TRUE, ws_url |-> "wss://" \o url.authority \o "/ws"]
    ELSE IF url.scheme = "http" THEN [ok |-> TRUE, ws_url |-> "ws://" \o url.authority \o "/ws"]
    ELSE [ok |-> FALSE, ws_url |-> ""]

\* the result of TradingApi::new given the URL and what the two endpoints
\* answer: [ok, err, detail, asked, chain_id, chain_hash, ws_url]; asked
\* tells which endpoints were requested
NewResult(ok, err, detail, asked, chain_id, chain_hash, ws) ==
    [err |-> err, ok |-> ok, chain_id |-> chain_id, chain_hash |-> chain_hash, ws_url |-> ws,
     detail |-> detail, asked |-> asked]

new(url, constants, schema) ==
    LET ws == ws_url_of(url)
        chain_id == try_from(constants.chain_id)
        decoded == hex_decode(Replace0x(schema.text))
        Failed(err, detail, asked) == NewResult(FALSE, err, detail, asked, 0, <<>>, "")
    IN  IF ~ws.ok THEN Failed("InvalidNetworkUrl", "", <<>>)
        ELSE IF ~constants.ok THEN Failed("ApiError", "", <<"constants">>)
        ELSE IF ~chain_id.ok THEN Failed("ChainIdCastError", "", <<"constants">>)
        ELSE IF ~schema.ok THEN Failed("ApiError", "", <<"constants", "schema">>)
        ELSE IF schema.kind # "string"
        THEN Failed("InvalidSchemaResponse", "chain_hash", <<"constants", "schema">>)
        ELSE IF ~decoded.ok
        THEN Failed("InvalidChainHash", decoded.err, <<"constants", "schema">>)
        ELSE IF Len(decoded.bytes) # ChainHashLen
        THEN Failed("InvalidChainHash",
                    "expected 32 bytes, got " \o ToString(Len(decoded.bytes)),
                    <<"constants", "schema">>)
        ELSE NewResult(TRUE, "", "", <<"constants", "schema">>, chain_id.v, decoded.bytes,
                       ws.ws_url)

\* the hexadecimal text of bytes
HexOf(bytes) ==
    [i \in 1..(2 * Len(bytes)) |->
        IF i % 2 = 1 THEN HexDigits[(bytes[(i + 1) \div 2] \div 16) + 1]
        ELSE HexDigits[(bytes[i \div 2] % 16) + 1]]

\* the URLs a caller gives
Urls ==
    {[parses |-> TRUE, scheme |-> "https", authority |-> "h"],
     [parses |-> TRUE, scheme |-> "http", authority |-> "h"],
     [parses |-> TRUE, scheme |-> "ftp", authority |-> "h"],
     [parses |-> FALSE, scheme |-> "", authority |-> ""]}

\* what the constants endpoint answers: no response, or a chain_id that is
\* 1, 2, 2^64 + 1, or -1
ConstantsResponses ==
    {[ok |-> FALSE, chain_id |-> Wide(FALSE, 0, 0)]}
    \cup {[ok |-> TRUE, chain_id |-> v] :
            v \in {Wide(FALSE, 0, 1), Wide(FALSE, 0, 2), Wide(FALSE, 1, 1), Wide(TRUE, 0, 1)}}

GoodHex == HexOf(HashOf(1, 171))

\* the texts of chain_hash: 32 bytes in hex, with capitals, with the prefix
\* 0x, with a letter that is no digit, with an odd number of digits, of 31
\* and of 33 bytes, empty, and with 0x between the digits
HashTexts ==
    {GoodHex,
     <<"A", "B">> \o SubSeq(GoodHex, 3, Len(GoodHex)),
     <<"0", "x">> \o HexOf(HashOf(ChainHashLen, 1)),
     [GoodHex EXCEPT ![5] = "g"],
     Tail(GoodHex),
     SubSeq(GoodHex, 3, Len(GoodHex)),
     GoodHex \o <<"0", "0">>,
     <<>>,
     SubSeq(GoodHex, 1, 2) \o <<"0", "x">> \o SubSeq(GoodHex, 3, Len(GoodHex))}

\* what the schema endpoint answers: no response, a schema without
\* chain_hash, with a number for it, with a text for it
SchemaResponses ==
    {[kind |-> "absent", text |-> <<>>, ok |-> FALSE],
     [kind |-> "absent", text |-> <<>>, ok |-> TRUE],
     [kind |-> "number", text |-> <<>>, ok |-> TRUE]}
    \cup {[kind |-> "string", text |-> t, ok |-> TRUE] : t \in HashTexts}

InitNew ==
    /\ pc = "idle"
    /\ cur = 0
    /\ cfg = 0
    /\ waited = 0
    /\ nsock = 0
    /\ sock = [s \in Socks |-> "none"]
    /\ handles = {}
    /\ inq = [s \in Socks |-> <<>>]
    /\ out = [s \in Socks |-> <<>>]
    /\ hs = [s \in Socks |-> Hs("none", <<>>)]
    /\ last = NoResult
    /\ prev = ""
    /\ rid = NoRid
    /\ call = NoCall
    /\ txn = [NoTxn EXCEPT !.stage = "absent"]
    /\ \E c \in ConstantsResponses, h \in SchemaResponses :
           srv = [NoServer EXCEPT !.constants = c, !.schema = h]

\* TradingApi::new, once
New ==
    \E url \in Urls :
        /\ txn.stage = "absent"
        /\ txn.op = ""
        /\ LET r == new(url, srv.constants, srv.schema) IN
              /\ txn' = IF r.ok
                        THEN [txn EXCEPT !.stage = "none", !.op = "new", !.err = "",
                                         !.chain_id = r.chain_id,
                                         !.chain_hash = r.chain_hash,
                                         !.ws_url = r.ws_url]
                        ELSE [txn EXCEPT !.op = "new",
                                         !.err = IF r.detail = "" THEN r.err
                                                 ELSE r.err \o ": " \o r.detail]
              /\ srv' = [srv EXCEPT !.fetched =
                            [e \in {"constants", "schema"} |->
                                IF \E i \in 1..Len(r.asked) : r.asked[i] = e
                                THEN @[e] + 1 ELSE @[e]]]
        /\ UNCHANGED <<pc, cur, cfg, waited, nsock, sock, handles, inq, out, hs, last,
                       prev, rid, call>>

---------------------------------------------------------------------------
(* The REST side of a session: build, sign, encode, submit *)

\* clock readings of the calls: before the epoch, two within one
\* millisecond, one in the next
Readings == {BeforeEpoch, Reading(1, 0), Reading(1, 1), Reading(2, 0)}

\* the caller keeps the unsigned transaction it has built
KeepTransaction ==
    /\ txn.stage = "built"
    /\ txn.op = "build"
    /\ txn.err = ""
    /\ txn' = [txn EXCEPT !.kept = [has |-> TRUE, now |-> txn.now,
                                    unsigned |-> txn.unsigned]]
    /\ UNCHANGED <<pc, cur, cfg, waited, nsock, sock, handles, inq, out, hs, last,
                   prev, rid, srv, call>>

\* TradingApi::sign_to_base64, of the signed transaction
EncodeTransaction ==
    /\ txn.stage \in {"signed", "submitted"}
    /\ txn.nenc < MaxEncodes
    /\ txn' = [txn EXCEPT !.wire = sign_to_base64(txn.signed), !.nenc = @ + 1,
                          !.op = "encode", !.err = ""]
    /\ UNCHANGED <<pc, cur, cfg, waited, nsock, sock, handles, inq, out, hs, last,
                   prev, rid, srv, call>>

\* mutant: the error of build_transaction is not looked at
SignAndSubmitUnchecked ==
    \E call_msg \in CallMessages, max_fee \in Fees, now \in Clock,
       keypair \in SecretKeys, answered \in BOOLEAN :
        /\ txn.stage # "absent"
        /\ LET unsigned == build_transaction(ChainIdOf(txn), call_msg, max_fee, now)
               tx == IF unsigned.ok THEN unsigned.tx
                     ELSE UnsignedTransaction(call_msg, 0, ChainIdOf(txn), max_fee)
               signed == sign_transaction(tx, keypair, ChainHashOf(txn))
           IN  txn' = [txn EXCEPT !.stage = "submitted", !.op = "sign_and_submit",
                                  !.now = now, !.unsigned = tx,
                                  !.signed = signed.tx,
                                  !.posted = sign_to_base64(signed.tx),
                                  !.posts = 1, !.wire = <<>>, !.nenc = 0,
                                  !.err = IF answered THEN "" ELSE "ApiError"]
        /\ UNCHANGED <<pc, cur, cfg, waited, nsock, sock, handles, inq, out, hs, last,
                       prev, rid, srv, call>>

\* TradingApi::sign_and_submit: build_transaction, sign_transaction and
\* submit_transaction, each error returned at once
SignAndSubmit ==
    \E call_msg \in CallMessages, max_fee \in Fees, now \in Clock,
       keypair \in SecretKeys, answered \in BOOLEAN :
        /\ txn.stage # "absent"
        /\ LET unsigned == build_transaction(ChainIdOf(txn), call_msg, max_fee, now)
               signed == sign_transaction(unsigned.tx, keypair, ChainHashOf(txn))
           IN  txn' = IF ~unsigned.ok
                      THEN [txn EXCEPT !.err = unsigned.err, !.op = "sign_and_submit",
                                       !.now = now]
                      ELSE IF ~signed.ok
                      THEN [txn EXCEPT !.err = signed.err, !.op = "sign_and_submit",
                                       !.now = now]
                      ELSE [txn EXCEPT !.stage = "submitted", !.op = "sign_and_submit",
                                       !.now = now, !.unsigned = unsigned.tx,
                                       !.signed = signed.tx,
                                       !.posted = sign_to_base64(signed.tx),
                                       !.posts = 1, !.wire = <<>>, !.nenc = 0,
                                       !.err = IF answered THEN "" ELSE "ApiError"]
        /\ UNCHANGED <<pc, cur, cfg, waited, nsock, sock, handles, inq, out, hs, last,
                       prev, rid, srv, call>>

NextApi ==
    \/ BuildTransaction
    \/ SignTransaction
    \/ EncodeTransaction
    \/ SubmitTransaction
    \/ SignAndSubmit

SpecApi == InitTx /\ [][NextApi]_vars

\* a session from TradingApi::new on; its WebSocket connects as far as the
\* upgrade request
NextSession ==
    \/ New
    \/ BuildTransaction
    \/ SignTransaction
    \/ SubmitTransaction
    \/ SignAndSubmit
    \/ ConnectWs
    \/ SendUpgradeFails

SpecSession == InitNew /\ [][NextSession]_vars

\* the builds of one caller over time
NextBuild ==
    \/ BuildAt(Readings)
    \/ KeepTransaction

SpecBuild == InitTx /\ [][NextBuild]_vars

---------------------------------------------------------------------------
(* Every network operation of the library: the upgrade request and the
   handshake wait of connect, the socket write of send, the POST of submit *)

\* a session without a socket yet, its caller holding a signed transaction
InitNet ==
    /\ pc = "idle"
    /\ cur = 0
    /\ cfg = 0
    /\ waited = 0
    /\ nsock = 0
    /\ sock = [s \in Socks |-> "none"]
    /\ handles = {}
    /\ inq = [s \in Socks |-> <<>>]
    /\ out = [s \in Socks |-> <<>>]
    /\ hs = [s \in Socks |-> Hs("none", <<>>)]
    /\ last = NoResult
    /\ prev = ""
    /\ rid = NoRid
    /\ srv = NoServer
    /\ call = NoCall
    /\ LET h == HashOf(ChainHashLen, 1)
           u == build_transaction(1, 1, 0, Reading(1, 0)).tx
       IN  txn = [NoTxn EXCEPT !.stage = "signed", !.op = "sign", !.chain_id = 1,
                               !.chain_hash = h, !.unsigned = u,
                               !.now = Reading(1, 0),
                               !.signed = sign_transaction(u, 1, h).tx]

NextNet ==
    \/ ConnectWsWithConfig
    \/ SendUpgradeFails
    \/ SendUpgradeOk
    \/ IntoWebsocketOk
    \/ IntoWebsocketFails
    \/ HandshakeRecv
    \/ TimerFires
    \/ StreamYields
    \/ Tick
    \/ Send
    \/ SendFails
    \/ ListSubscriptions(OrderIds)
    \/ SubmitTransaction

SpecNet == InitNet /\ [][NextNet]_vars

---------------------------------------------------------------------------
(* Properties of connect and of the handshake wait, under Spec *)

\* m is a tagged status message whose status is the literal "connected"
SaysConnected(m) ==
    /\ m.variant = "Tagged"
    /\ m.tag = "Status"
    /\ M("status", Str("connected")) \in m.fields

IsData(item) == item.kind \in {"text", "binary"}

\* C1: the caller holds a handle only if the handshake recv of its socket
\* returned Ok with a tagged status message whose status is exactly
\* "connected", and the recv arm, not the timer, completed the wait; a
\* connect that returns Ok returned on such a data frame.
C1_HandleOnlyAfterConnected ==
    /\ \A s \in handles :
        /\ hs[s].state = "connected"
        /\ Len(hs[s].got) = 1
        /\ hs[s].got[1].ok
        /\ SaysConnected(hs[s].got[1].msg)
    /\ (last.op = "connect" /\ last.ok) =>
        /\ last.sock \in handles
        /\ Len(last.item) = 1
        /\ IsData(last.item[1])

C1_Witness ==
    /\ last.op = "connect"
    /\ last.ok
    /\ last.sock \in handles
    /\ pc = "idle"

\* C2: when the handshake recv returns a message that is no tagged status
\* with status "connected", connect fails with WsHandshakeFailed carrying
\* the debug rendering of that message.
C2_HandshakeFailedCarriesMessage ==
    (/\ last.op = "connect"
     /\ Len(last.item) = 1
     /\ IsData(last.item[1])
     /\ ~SaysConnected(RecvItem(last.item[1]).msg))
    => /\ ~last.ok
       /\ last.err.kind = "WsHandshakeFailed"
       /\ last.err.dbg = <<DebugFmt(RecvItem(last.item[1]).msg)>>
       /\ last.sock \notin handles

C2_Witness ==
    /\ last.op = "connect"
    /\ last.item = <<Text(MarkPriceDoc)>>
    /\ last.err.kind = "WsHandshakeFailed"
    /\ last.err.dbg[1].path = <<"MarkPrice">>

\* C3: an operation returns WsConnectionTimeout only when it is a connect
\* whose timer arm completed the handshake wait, after the configured
\* timeout and with no data item read; the timer arm always gives that
\* error; recv and send never return it, however long they wait.
C3_TimeoutOnlyInHandshake ==
    /\ [](last.err.kind = "WsConnectionTimeout" =>
            /\ last.op = "connect"
            /\ last.item = <<>>
            /\ last.sock \in Socks
            /\ hs[last.sock].state = "timeout")
    /\ [][(last' # last /\ last'.err.kind = "WsConnectionTimeout") =>
            /\ pc = "handshake"
            /\ waited >= cfg
            /\ last'.sock = cur]_vars
    /\ [][\A s \in Socks :
            (hs[s].state # "timeout" /\ hs'[s].state = "timeout") =>
                /\ last'.op = "connect"
                /\ last'.sock = s
                /\ last'.err.kind = "WsConnectionTimeout"]_vars

\* a socket timed out in its handshake, and a recv on another socket has
\* waited as long as the clock counts
C3_Witness ==
    /\ \E s \in Socks : hs[s].state = "timeout"
    /\ pc = "recv"
    /\ waited = MaxTime
    /\ inq[cur] = <<>>

\* C4: a socket carries a written frame only after its handshake recv
\* returned the connected status; nothing is written during connect.
C4_NoWriteBeforeConnected ==
    /\ \A s \in Socks :
        out[s] # <<>> =>
            /\ hs[s].state = "connected"
            /\ Len(hs[s].got) = 1
            /\ SaysConnected(hs[s].got[1].msg)
    /\ (pc \in {"upgrade", "handshake"}) => out[cur] = <<>>

C4_Witness == \E s \in Socks : out[s] # <<>> /\ hs[s].state = "connected"

\* C5: when the handshake wait fails, connect returns an error, the socket
\* is dropped and the caller holds no handle to it; every handle the caller
\* holds is of a live socket whose handshake completed.
C5_FailedHandshakeDropsSocket ==
    /\ \A s \in Socks :
        hs[s].state \in {"rejected", "timeout"} =>
            /\ sock[s] = "dropped"
            /\ s \notin handles
    /\ (last.op = "connect" /\ last.sock # 0 /\ ~last.ok) =>
        /\ sock[last.sock] = "dropped"
        /\ last.sock \notin handles
    /\ (last.op = "connect" /\ last.sock # 0
            /\ hs[last.sock].state \in {"rejected", "timeout"}) => ~last.ok
    /\ \A s \in handles : sock[s] = "live" /\ hs[s].state = "connected"

C5_Witness ==
    /\ last.op = "connect"
    /\ ~last.ok
    /\ last.sock # 0
    /\ hs[last.sock].state = "rejected"
    /\ sock[last.sock] = "dropped"

\* C6: once a connect is cancelled after its connection was made, that
\* connection is dropped, stays dropped, is never held by the caller and
\* is never the socket of a later connect.
C6_CancelledConnectDropsSocket ==
    /\ [](\A s \in Socks :
            hs[s].state = "cancelled" =>
                /\ sock[s] = "dropped"
                /\ s \notin handles
                /\ cur # s)
    /\ [][\A s \in Socks :
            hs[s].state = "cancelled" =>
                /\ hs'[s].state = "cancelled"
                /\ sock'[s] = "dropped"
                /\ s \notin handles'
                /\ cur' # s]_vars
    /\ [][(pc \in {"upgrade", "handshake"} /\ pc' = "idle" /\ last' = NoResult) =>
            /\ hs'[cur].state = "cancelled"
            /\ sock'[cur] = "dropped"]_vars

\* a connect was cancelled, and a later connect holds its own socket
C6_Witness ==
    /\ \E s \in Socks : hs[s].state = "cancelled" /\ sock[s] = "dropped"
    /\ pc = "handshake"
    /\ hs[cur].state = "waiting"

---------------------------------------------------------------------------
(* Properties of recv, under SpecRecv *)

\* the item on which the last recv returned
LastItem == last.item[1]

\* the step reads the head of the stream of a pending recv
Reads ==
    /\ pc = "recv"
    /\ inq[cur] # <<>>
    /\ (pc' = "idle" \/ Len(inq'[cur]) < Len(inq[cur]))

\* C7: recv returns WsClosed with the code and reason of the close frame
\* exactly when it returns on a close frame, and WsStreamEnded exactly when
\* it returns on the end of the stream; a close frame or the end at the
\* head of the stream always ends the recv with that error, and neither is
\* returned as a message.
C7_ClosedAndStreamEnded ==
    /\ []((last.op = "recv" /\ Len(last.item) = 1) =>
            /\ LastItem.kind = "close" =>
                /\ ~last.ok
                /\ last.err.kind = "WsClosed"
                /\ last.err.code = LastItem.code
                /\ last.err.reason = LastItem.reason
            /\ LastItem.kind = "end" => (~last.ok /\ last.err.kind = "WsStreamEnded")
            /\ last.err.kind = "WsClosed" => LastItem.kind = "close"
            /\ last.err.kind = "WsStreamEnded" => LastItem.kind = "end"
            /\ last.ok => IsData(LastItem))
    /\ [][(Reads /\ Head(inq[cur]).kind \in {"close", "end"}) =>
            /\ pc' = "idle"
            /\ last'.op = "recv"
            /\ last'.item = <<Head(inq[cur])>>
            /\ ~last'.ok]_vars

\* a recv returned WsClosed with code 1006, and the stream then ends
C7_Witness ==
    /\ last.op = "recv"
    /\ last.err.kind = "WsClosed"
    /\ last.err.code = 1006
    /\ last.err.reason = "bye"
    /\ inq[last.sock] = <<StreamEnd>>

Variants ==
    {"Tagged", "DepthUpdate", "AggTrade", "BookTicker", "MarkPrice", "ForceOrder",
     "OrderUpdate", "Error", "Unknown"}

\* C8: a recv that reads a text or binary frame returns Ok with a
\* ServerMessage, Unknown exactly when the payload does not parse as one;
\* the read takes that one frame off the stream and changes nothing else
\* of the session, so the frames behind it are read by the next recvs.
C8_DataFrameNeverFails ==
    /\ []((last.op = "recv" /\ Len(last.item) = 1 /\ IsData(LastItem)) =>
            /\ last.ok
            /\ last.msg.variant \in Variants
            /\ last.msg.variant = "Unknown" <=>
                 ~(IF LastItem.kind = "text" THEN FromStr(LastItem.data).ok
                   ELSE FromSlice(LastItem.data).ok)
            /\ sock[last.sock] = "live"
            /\ last.sock \in handles)
    /\ [][(Reads /\ IsData(Head(inq[cur]))) =>
            /\ pc' = "idle"
            /\ last'.ok
            /\ last'.item = <<Head(inq[cur])>>
            /\ inq'[cur] = Tail(inq[cur])
            /\ sock' = sock
            /\ handles' = handles
            /\ hs' = hs]_vars

\* a recv returned a message right after a recv returned Unknown
C8_Witness ==
    /\ prev = "Unknown"
    /\ last.op = "recv"
    /\ last.ok
    /\ last.msg.variant = "MarkPrice"

\* the text that from_utf8_lossy gives for data: U+FFFD for every byte that
\* is no UTF-8, everything else as it is
IsLossyOf(text, data) ==
    /\ Len(text) = Len(data)
    /\ \A i \in 1..Len(data) :
        IF data[i].kind = "bad" THEN text[i] = REPL
        ELSE IF data[i].v.enc = "bad"
             THEN text[i] = M(data[i].k, StrRepl(data[i].v.s))
             ELSE text[i] = data[i]

\* C9: when a frame does not parse, recv returns Unknown with the text of
\* the parse error and, for a text frame, the text of the frame unchanged,
\* for a binary frame, the lossy UTF-8 rendering of its bytes.
C9_UnknownKeepsDiagnosticAndText ==
    (last.op = "recv" /\ Len(last.item) = 1) =>
        /\ (LastItem.kind = "text" /\ ~FromStr(LastItem.data).ok) =>
            /\ last.msg.variant = "Unknown"
            /\ last.msg.err = FromStr(LastItem.data).err
            /\ last.msg.err # ""
            /\ last.msg.raw = LastItem.data
        /\ (LastItem.kind = "binary" /\ ~FromSlice(LastItem.data).ok) =>
            /\ last.msg.variant = "Unknown"
            /\ last.msg.err = FromSlice(LastItem.data).err
            /\ last.msg.err # ""
            /\ IsLossyOf(last.msg.raw, LastItem.data)

\* a binary frame with an invalid byte in a string came back as Unknown
C9_Witness ==
    /\ last.op = "recv"
    /\ last.item = <<Binary(BadDoc)>>
    /\ last.msg.variant = "Unknown"
    /\ last.msg.err = "invalid unicode code point"
    /\ last.msg.raw = ReplDoc

\* C10: a binary frame whose bytes are UTF-8 gives what a text frame with
\* the same content gives; when the content is the JSON of a message, both
\* give that message.
C10_BinaryClassifiesAsText ==
    (/\ last.op = "recv"
     /\ Len(last.item) = 1
     /\ LastItem.kind = "binary"
     /\ IsUtf8(LastItem.data))
    => /\ last.ok
       /\ last.msg = RecvItem(Text(LastItem.data)).msg
       /\ FromStr(LastItem.data).ok =>
            /\ last.msg = FromStr(LastItem.data).msg
            /\ last.msg.variant # "Unknown"

\* a binary frame holding the JSON of a subscribe result came back as it
C10_Witness ==
    /\ last.op = "recv"
    /\ last.item = <<Binary(SubscribeDoc)>>
    /\ last.msg.variant = "Tagged"
    /\ last.msg.tag = "Subscribe"
    /\ last.msg.id = Some(5)

---------------------------------------------------------------------------
(* Properties of the classification, under SpecClassify *)

\* the forms in the order in which the classification is said to try them
Forms ==
    <<"Tagged", "DepthUpdate", "AggTrade", "BookTicker", "MarkPrice", "ForceOrder",
      "OrderUpdate", "Error">>

\* the object has the fields of the form, with their types
FormMatches(form, obj) ==
    CASE form = "Tagged" -> TaggedMatches(obj)
      [] form = "DepthUpdate" -> Matches(obj, DepthUpdateReq)
      [] form = "AggTrade" -> Matches(obj, AggTradeReq)
      [] form = "BookTicker" -> Matches(obj, BookTickerReq)
      [] form = "MarkPrice" -> Matches(obj, MarkPriceReq)
      [] form = "ForceOrder" -> ForceOrderMatches(obj)
      [] form = "OrderUpdate" -> OrderUpdateMatches(obj)
      [] form = "Error" -> Matches(obj, ErrorReq) /\ OptIdOk(obj)

MatchingForms(obj) == {i \in 1..Len(Forms) : FormMatches(Forms[i], obj)}

FirstForm(obj) ==
    IF MatchingForms(obj) = {} THEN "Unknown"
    ELSE Forms[CHOOSE i \in MatchingForms(obj) : \A j \in MatchingForms(obj) : i <= j]

\* recv has returned the classification of an object sent as a text frame
Classified ==
    /\ last.op = "recv"
    /\ last.ok
    /\ Len(last.item) = 1
    /\ LastItem.kind = "text"

\* C11: the message is of the first form, in the order Tagged, DepthUpdate,
\* AggTrade, BookTicker, MarkPrice, ForceOrder, OrderUpdate, Error, that the
\* object matches, and Unknown only when it matches none; an error object
\* with e = "error" is Tagged(Error), the same object without e is Error.
C11_FirstMatchingFormWins ==
    Classified =>
        /\ last.msg.variant = FirstForm(Members(LastItem.data))
        /\ LastItem.data = TaggedErrorDoc =>
            (last.msg.variant = "Tagged" /\ last.msg.tag = "Error")
        /\ LastItem.data = Without(TaggedErrorDoc, "e") => last.msg.variant = "Error"

\* an object with the fields of an aggTrade and of a markPriceUpdate, which
\* also matches the later form MarkPrice, came back as AggTrade
C11_Witness ==
    /\ Classified
    /\ LastItem.data = Union(MarkPriceDoc, AggTradeDoc)
    /\ Cardinality(MatchingForms(Members(LastItem.data))) = 2
    /\ last.msg.variant = "AggTrade"

\* the documented shapes, with and without the optional request id
DocumentedFrames ==
    ShapeDocs \cup {WithId(d) : d \in ShapeDocs} \cup {Without(d, "id") : d \in ShapeDocs}

\* the variant documented for an event type: <<variant, tag>>
ExpectedVariant(e) ==
    CASE e = "status" -> <<"Tagged", "Status">>
      [] e = "pong" -> <<"Tagged", "Pong">>
      [] e = "error" -> <<"Tagged", "Error">>
      [] e = "subscribe" -> <<"Tagged", "Subscribe">>
      [] e = "unsubscribe" -> <<"Tagged", "Unsubscribe">>
      [] e = "list_subscriptions" -> <<"Tagged", "ListSubscriptions">>
      [] e = "depthUpdate" -> <<"DepthUpdate", "">>
      [] e = "aggTrade" -> <<"AggTrade", "">>
      [] e = "bookTicker" -> <<"BookTicker", "">>
      [] e = "markPriceUpdate" -> <<"MarkPrice", "">>
      [] e = "liquidation" -> <<"ForceOrder", "">>
      [] e = "orderTradeUpdate" -> <<"OrderUpdate", "">>

\* the payload members of an object: all but the request id and, in a tagged
\* form, the tag
Payload(obj, tagged) ==
    {obj[i] : i \in {j \in 1..Len(obj) :
        obj[j].k # "id" /\ (tagged => obj[j].k # "e")}}

\* C12: every well-formed frame of a documented shape, with or without a
\* request id, is returned by recv as the variant documented for its event
\* type and as no other, and the message carries the frame's payload members
\* and its request id unchanged.
C12_DocumentedShapeClassifies ==
    (Classified /\ LastItem.data \in DocumentedFrames) =>
        LET obj == Members(LastItem.data)
            exp == ExpectedVariant(Get(obj, "e").s)
        IN  /\ last.msg.variant = exp[1]
            /\ last.msg.tag = exp[2]
            /\ last.msg.fields = Payload(obj, exp[1] = "Tagged")
            /\ (exp[1] = "Tagged" /\ exp[2] # "Status") => last.msg.id = IdOf(obj)

C12_Witness ==
    /\ Classified
    /\ LastItem.data = ListDoc
    /\ last.msg.variant = "Tagged"
    /\ last.msg.tag = "ListSubscriptions"
    /\ last.msg.id = Some(7)
    /\ M("result", Arr(<<"btcusdt@depth10", "ethusdt@aggTrade">>)) \in last.msg.fields

\* the variants that have a request id field
CarriesId(m) ==
    \/ m.variant = "Tagged"
        /\ m.tag \in {"Pong", "Error", "Subscribe", "Unsubscribe", "ListSubscriptions"}
    \/ m.variant = "Error"

\* C13: request_id of the message that recv returned is the id of the frame
\* for a tagged Pong, Error, Subscribe, Unsubscribe or ListSubscriptions and
\* for the untagged Error; it is None for Status, for every market-data
\* variant, for Unknown, and when the frame has no id.
C13_RequestIdOfVariant ==
    (rid.called /\ Classified) =>
        LET obj == Members(LastItem.data) IN
        /\ CarriesId(last.msg) => rid.v = IdOf(obj)
        /\ ~CarriesId(last.msg) => rid.v = None
        /\ Count(obj, "id") = 0 => rid.v = None

C13_Witness ==
    /\ rid.called
    /\ Classified
    /\ LastItem.data = OrderErrorDoc
    /\ last.msg.variant = "Error"
    /\ rid.v = Some(2)

---------------------------------------------------------------------------
(* Properties of the request methods, under SpecCalls *)

\* the canonical string of each topic a caller passes
Canonical(t) ==
    CASE t = Topic("AggTrade", "BTC-USD", "") -> "BTC-USD@aggTrade"
      [] t = Topic("Depth", "ETH-USD", "D10") -> "ETH-USD@depth10"

\* the one frame a subscribe or unsubscribe call hands to the socket
RequestFrame(c) ==
    [kind |-> "text",
     json |-> [id |-> c.id,
               method |-> IF c.op = "subscribe" THEN "SUBSCRIBE" ELSE "UNSUBSCRIBE",
               params |-> [i \in 1..Len(c.topics) |-> Canonical(c.topics[i])]]]

\* the step is a call of a request method
IsRequestStep == call' # call \/ Len(out'[1]) > Len(out[1])

\* C15: a call of subscribe or unsubscribe writes exactly one frame, the
\* SUBSCRIBE (UNSUBSCRIBE) request whose params are the canonical strings of
\* all the topics given, in their order and with their duplicates, and whose
\* id is the caller's; for any number of topics, none included. When the
\* socket write fails nothing is written.
C15_OneRequestFramePerCall ==
    [][(IsRequestStep /\ call'.op \in {"subscribe", "unsubscribe"}) =>
          out'[1] = IF call'.ok THEN Append(out[1], RequestFrame(call')) ELSE out[1]]_vars

C15_Witness ==
    /\ call.op = "subscribe"
    /\ call.ok
    /\ call.id = Some(2)
    /\ call.topics = <<Topic("Depth", "ETH-USD", "D10"), Topic("Depth", "ETH-USD", "D10")>>
    /\ out[1] # <<>>
    /\ out[1][Len(out[1])].json =
           [id |-> Some(2), method |-> "SUBSCRIBE",
            params |-> <<"ETH-USD@depth10", "ETH-USD@depth10">>]

\* some topic of the call had no active subscription when the call was made
HasInactiveTopic(c) ==
    \E i \in 1..Len(c.topics) :
        \A j \in 1..Len(c.active) : c.active[j] # Canonical(c.topics[i])

\* C16: after any subscribe and unsubscribe calls, an unsubscribe that names
\* a topic without an active subscription writes the same UNSUBSCRIBE request
\* as any other unsubscribe, and it returns Ok exactly when the socket write
\* succeeds: the client makes no error of it.
C16_UnsubscribeInactiveTopic ==
    [][(IsRequestStep /\ call'.op = "unsubscribe" /\ HasInactiveTopic(call')) =>
          /\ last'.op = "send"
          /\ last'.ok = (out' # out)
          /\ last'.ok => out'[1] = Append(out[1], RequestFrame(call'))
          /\ ~last'.ok => last'.err.kind = "WsUpgradeError"]_vars

C16_Witness ==
    /\ call.op = "unsubscribe"
    /\ call.ok
    /\ call.topics = <<Topic("AggTrade", "BTC-USD", "")>>
    /\ call.active = <<"ETH-USD@depth10">>
    /\ last.op = "send"
    /\ last.ok
    /\ out[1] # <<>>
    /\ out[1][Len(out[1])].json.params = <<"BTC-USD@aggTrade">>

---------------------------------------------------------------------------
(* Properties of the session with an answering server, under SpecEcho *)

\* the request of the last call, made with id n, is written and not yet handled
Pending(n) == call.ok /\ call.id = Some(n) /\ out[1] # <<>>

\* recv has returned a result, a pong or an error whose request_id() is n
Answered(n) ==
    /\ last.op = "recv"
    /\ last.ok
    /\ last.msg.variant = "Tagged"
    /\ last.msg.tag \in {"Subscribe", "Unsubscribe", "ListSubscriptions", "Pong", "Error"}
    /\ request_id(last.msg) = Some(n)

\* C14: against a server that echoes ids, a subscribe, unsubscribe,
\* list_subscriptions or ping request written with id N is eventually
\* answered by a message returned from recv (a result, a pong or an error)
\* whose request_id() is N, whatever market data recv returns before it.
C14_RequestIdRoundTrip ==
    /\ [](\A n \in 1..2 : Pending(n) => out[1][Len(out[1])].json.id = Some(n))
    /\ \A n \in 1..2 : Pending(n) ~> Answered(n)

C14_Witness ==
    /\ call.ok
    /\ call.op = "unsubscribe"
    /\ call.id = Some(2)
    /\ Answered(2)
    /\ last.msg.tag = "Error"
    /\ prev = "AggTrade"

\* x is one of the strings of the list s
InList(x, s) == \E i \in 1..Len(s) : s[i] = x

\* recv has returned a ListSubscriptions result with id n whose list has the
\* canonical strings of the two topics a caller passes
Listed(n) ==
    /\ last.op = "recv"
    /\ last.ok
    /\ last.msg.variant = "Tagged"
    /\ last.msg.tag = "ListSubscriptions"
    /\ last.msg.id = Some(n)
    /\ \E f \in last.msg.fields :
          f.k = "result" /\ \A t \in TopicSamples : InList(Canonical(t), f.v.s)

\* C17: once two distinct topics have been subscribed on the open session, a
\* following list_subscriptions(id) is eventually answered by a
\* ListSubscriptions result with that id whose list contains the canonical
\* strings of both topics.
C17_ListHoldsSubscribedTopics ==
    /\ [](\A n \in 1..2 :
             (Pending(n) /\ call.op = "list_subscriptions") =>
                 out[1][Len(out[1])].json =
                     [id |-> Some(n), method |-> "LIST_SUBSCRIPTIONS", params |-> <<>>])
    /\ \A n \in 1..2 :
          (/\ Pending(n)
           /\ call.op = "list_subscriptions"
           /\ \A t \in TopicSamples : InList(Canonical(t), call.active))
          ~> Listed(n)

C17_Witness ==
    /\ call.ok
    /\ call.op = "list_subscriptions"
    /\ call.id = Some(2)
    /\ call.active = <<"BTC-USD@aggTrade", "ETH-USD@depth10">>
    /\ Listed(2)

---------------------------------------------------------------------------
(* Properties of transactions, under SpecTx *)

\* the bytes that a string of the STANDARD alphabet stands for
RECURSIVE Base64Decode(_)
Base64Decode(chars) ==
    IF Len(chars) < 4 THEN <<>>
    ELSE LET a == chars[1]
             b == chars[2]
             c == chars[3]
             d == chars[4]
         IN  IF c = 64 THEN <<a * 4 + b \div 16>>
             ELSE IF d = 64 THEN <<a * 4 + b \div 16, (b % 16) * 16 + c \div 4>>
             ELSE <<a * 4 + b \div 16, (b % 16) * 16 + c \div 4, (c % 4) * 64 + d>>
                  \o Base64Decode(SubSeq(chars, 5, Len(chars)))

\* the bytes of a signed transaction, field by field
SignedBytes(signed) ==
    <<0, 0, signed.runtime_call, 0, signed.uniqueness, signed.details.chain_id,
      signed.details.max_fee, 0, signed.details.max_priority_fee_bips>>
    \o signed.pub_key \o signed.signature

\* the frame of an order request with the caller's string and id
OrderFrame(c) ==
    [kind |-> "text",
     json |-> [id |-> c.id,
               method |-> IF c.op = "order_place" THEN "ORDER_PLACE" ELSE "ORDER_CANCEL",
               params |-> [tx |-> c.tx]]]

IsSubmitStep == txn.stage = "signed" /\ txn'.stage = "submitted"

\* C18: the body that submit_transaction posts is sign_to_base64 of the signed
\* transaction, the base64 text of its bytes, whether or not the endpoint
\* answers; and a call of order_place or order_cancel writes one frame whose
\* tx field is the string the caller gave, unaltered, be it that same text or
\* any other string. So one signed transaction is the same string on both
\* transports.
C18_OneWireString ==
    [][/\ IsSubmitStep =>
            /\ txn'.posted = sign_to_base64(txn.signed)
            /\ Base64Decode(txn'.posted) = SignedBytes(txn.signed)
            /\ txn'.signed = txn.signed
       /\ (IsRequestStep /\ call'.op \in {"order_place", "order_cancel"}) =>
            out'[1] = IF call'.ok THEN Append(out[1], OrderFrame(call')) ELSE out[1]]_vars

C18_Witness ==
    /\ txn.stage = "submitted"
    /\ txn.posted # <<>>
    /\ Base64Decode(txn.posted) = SignedBytes(txn.signed)
    /\ call.op = "order_place"
    /\ call.ok
    /\ call.tx = txn.posted
    /\ out[1] # <<>>
    /\ out[1][Len(out[1])].json.params.tx = txn.posted

\* the unsigned part of a signed transaction
UnsignedPart(signed) ==
    [runtime_call |-> signed.runtime_call, uniqueness |-> signed.uniqueness,
     details |-> signed.details]

\* the canonical encoding of the unsigned part, then the chain hash
SignedMessage(signed, chain_hash) ==
    <<0, signed.runtime_call, 0, signed.uniqueness, signed.details.chain_id,
      signed.details.max_fee, 0, signed.details.max_priority_fee_bips>> \o chain_hash

IsSigned == txn.stage \in {"signed", "submitted"}

\* C19: for every instruction, fee, keypair and chain hash, the transaction
\* that build_transaction and then sign_transaction give carries the built
\* fields, a 32-byte public key and a 64-byte signature, and the signature
\* verifies under that public key over the encoding of the unsigned part
\* followed by the 32 bytes of the session's chain hash.
C19_SignatureVerifies ==
    IsSigned =>
        /\ UnsignedPart(txn.signed) = txn.unsigned
        /\ Len(txn.signed.pub_key) = 32
        /\ Len(txn.signed.signature) = 64
        /\ Len(txn.chain_hash) = 32
        /\ Verify(txn.signed.pub_key, SignedMessage(txn.signed, txn.chain_hash),
                  txn.signed.signature)

C19_Witness ==
    /\ txn.stage = "signed"
    /\ txn.chain_hash = HashOf(1, 1)
    /\ txn.signed.pub_key = PublicKey(2)
    /\ txn.signed.runtime_call = 2
    /\ txn.signed.details.max_fee = 1
    /\ Verify(txn.signed.pub_key, SignedMessage(txn.signed, txn.chain_hash),
              txn.signed.signature)

\* the hashes that differ from h in the one byte i
OneByteChanged(h) ==
    {[h EXCEPT ![i] = (h[i] + 1) % 256] : i \in 1..Len(h)}

\* C20: a signature made under the chain hash H verifies under no chain hash
\* that differs from H, be it the hash of another session or H with one byte
\* changed, the transaction and the key held fixed.
C20_DomainSeparation ==
    IsSigned =>
        \A h \in (ChainHashes \cup OneByteChanged(txn.chain_hash)) \ {txn.chain_hash} :
            ~Verify(txn.signed.pub_key, SignedMessage(txn.signed, h), txn.signed.signature)

C20_Witness ==
    /\ txn.stage = "signed"
    /\ txn.chain_hash = HashOf(ChainHashLen, 1)
    /\ HashOf(ChainHashLen, 2) \in OneByteChanged(txn.chain_hash)
    /\ Verify(txn.signed.pub_key, SignedMessage(txn.signed, txn.chain_hash),
              txn.signed.signature)
    /\ ~Verify(txn.signed.pub_key, SignedMessage(txn.signed, HashOf(ChainHashLen, 2)),
               txn.signed.signature)

---------------------------------------------------------------------------
(* Properties of the REST side, under SpecApi *)

IsEncodeStep == txn'.op = "encode" /\ txn'.nenc = txn.nenc + 1

IsSignStep ==
    \/ txn'.op = "sign" /\ txn.stage = "built"
    \/ txn'.op = "sign_and_submit" /\ ~txn'.now.before

\* the transaction given to sign_transaction in this step
SignInput == IF txn'.op = "sign" THEN txn.unsigned ELSE txn'.unsigned

\* a whole signed transaction: the fields of the unsigned one, the 32 bytes
\* of the public key of one keypair, its 64 bytes of signature
IsWhole(signed, unsigned, chain_hash) ==
    /\ UnsignedPart(signed) = unsigned
    /\ \E sk \in SecretKeys :
           /\ signed.pub_key = PublicKey(sk)
           /\ signed.signature = Sign(sk, SignedMessage(signed, chain_hash))
    /\ Len(signed.pub_key) = 32
    /\ Len(signed.signature) = 64

\* C22: sign_transaction returns an error and no transaction, or a
\* transaction whose runtime_call, uniqueness and details are those of the
\* unsigned input, with the 32-byte public key of the keypair and the whole
\* 64-byte signature; the session never holds a transaction signed in part.
C22_SignAllOrNothing ==
    [][/\ IsSignStep =>
            \/ /\ txn'.err \in {"InvalidSignatureLength", "InvalidPublicKeyLength"}
               /\ txn'.signed = txn.signed
               /\ txn'.stage = txn.stage
            \/ /\ txn'.err \in {"", "ApiError"}
               /\ txn'.stage \in {"signed", "submitted"}
               /\ IsWhole(txn'.signed, SignInput, txn.chain_hash)
       /\ txn'.signed # NoSigned => IsWhole(txn'.signed, txn'.unsigned, txn'.chain_hash)]_vars

C22_Witness ==
    /\ txn.op = "sign"
    /\ txn.err = ""
    /\ txn.stage = "signed"
    /\ txn.unsigned = UnsignedTransaction(2, 1, 1, 1)
    /\ IsWhole(txn.signed, txn.unsigned, txn.chain_hash)
    /\ txn.signed.pub_key = PublicKey(2)

---------------------------------------------------------------------------
(* Properties of build_transaction, under SpecBuild *)

\* the caller holds an earlier transaction and the one of its latest call
TwoBuilds == txn.kept.has /\ txn.stage = "built" /\ txn.op = "build" /\ txn.err = ""

SameRequest(a, b) ==
    a.runtime_call = b.runtime_call /\ a.details.max_fee = b.details.max_fee

\* C23: the uniqueness token is the clock reading of the call in whole
\* milliseconds: two builds of one instruction and fee at readings within
\* the same millisecond give equal transactions, and two builds at readings
\* of different milliseconds give different tokens.
C23_TokenIsMillisecondOfCall ==
    TwoBuilds =>
        /\ txn.unsigned.uniqueness = txn.now.ms
        /\ txn.kept.unsigned.uniqueness = txn.kept.now.ms
        /\ (txn.now.ms = txn.kept.now.ms /\ SameRequest(txn.unsigned, txn.kept.unsigned))
               => txn.unsigned = txn.kept.unsigned
        /\ txn.now.ms # txn.kept.now.ms
               => txn.unsigned.uniqueness # txn.kept.unsigned.uniqueness

\* two builds at different readings within one millisecond
C23_Witness ==
    /\ TwoBuilds
    /\ txn.kept.now = Reading(1, 0)
    /\ txn.now = Reading(1, 1)
    /\ SameRequest(txn.unsigned, txn.kept.unsigned)
    /\ txn.unsigned = txn.kept.unsigned

\* the reading a is not later than the reading b
NotLater(a, b) == a.ms < b.ms \/ (a.ms = b.ms /\ a.sub <= b.sub)

\* C24, as stated: over any sequence of build_transaction calls, the token
\* of a later call is never smaller than the token of an earlier call.
C24_TokenNeverDecreases ==
    TwoBuilds => txn.kept.unsigned.uniqueness <= txn.unsigned.uniqueness

\* C24, amended: the token follows the wall clock. When the clock has not
\* gone back between two calls, the token of the later call is not smaller
\* than that of the earlier one; when the clock has gone back to an earlier
\* millisecond, it is smaller.
C24_TokenFollowsClock ==
    TwoBuilds =>
        /\ NotLater(txn.kept.now, txn.now)
               => txn.kept.unsigned.uniqueness <= txn.unsigned.uniqueness
        /\ txn.now.ms < txn.kept.now.ms
               => txn.unsigned.uniqueness < txn.kept.unsigned.uniqueness

C24_Witness ==
    /\ TwoBuilds
    /\ txn.kept.now = Reading(1, 1)
    /\ txn.now = Reading(2, 0)
    /\ txn.kept.unsigned.uniqueness < txn.unsigned.uniqueness

\* a call of build_transaction has returned
IsBuildStep == txn'.op = "build" /\ txn' # txn

\* C25: build_transaction fails only when the clock reads before the epoch,
\* with SystemTimeError and no transaction, what the caller held being left
\* as it was; at every other reading, for every instruction and fee, it
\* gives a transaction with the session's chain_id, the fee given, no gas
\* limit and a priority fee of 0.
C25_BuildFailsOnlyBeforeEpoch ==
    [][IsBuildStep =>
          /\ \A m \in CallMessages, f \in Fees, r \in Readings :
                LET b == build_transaction(txn.chain_id, m, f, r) IN
                    IF r.before
                    THEN ~b.ok /\ b.err = "SystemTimeError" /\ b.tx = NoUnsigned
                    ELSE /\ b.ok
                         /\ b.tx.runtime_call = m
                         /\ b.tx.details.max_fee = f
                         /\ b.tx.details.chain_id = txn.chain_id
          /\ txn'.err \in {"", "SystemTimeError"}
          /\ txn'.err = "SystemTimeError" <=> txn'.now.before
          /\ txn'.now.before =>
                /\ txn'.unsigned = txn.unsigned
                /\ txn'.stage = txn.stage
          /\ ~txn'.now.before =>
                /\ txn'.stage = "built"
                /\ txn'.unsigned.runtime_call \in CallMessages
                /\ txn'.unsigned.details =
                       [chain_id |-> txn.chain_id,
                        max_fee |-> txn'.unsigned.details.max_fee,
                        gas_limit |-> None, max_priority_fee_bips |-> 0]
                /\ txn'.unsigned.details.max_fee \in Fees]_vars

\* a failed build after a successful one
C25_Witness ==
    /\ txn.op = "build"
    /\ txn.err = "SystemTimeError"
    /\ txn.now.before
    /\ txn.stage = "built"
    /\ txn.unsigned.details =
           [chain_id |-> 1, max_fee |-> 1, gas_limit |-> None, max_priority_fee_bips |-> 0]

---------------------------------------------------------------------------
(* Properties of TradingApi::new and of the session, under SpecSession *)

\* TradingApi::new has returned, the URL being one it takes and the
\* constants endpoint having answered
IsNewStep ==
    /\ txn.op = ""
    /\ txn'.op = "new"
    /\ txn'.err # "InvalidNetworkUrl"
    /\ srv.constants.ok

Rejected(err) == txn'.err = err /\ txn'.stage = "absent"

FitsU64(v) == ~v.neg /\ v.hi = 0

\* a text without the prefix 0x it may have
StripPrefix(text) ==
    IF Len(text) >= 2 /\ text[1] = "0" /\ text[2] = "x"
    THEN SubSeq(text, 3, Len(text)) ELSE text

\* the text is hexadecimal digits, two for each byte
IsHex(text) == Len(text) % 2 = 0 /\ \A i \in 1..Len(text) : IsHexDigit(text[i])

HashRejected ==
    \/ Rejected("InvalidChainHash: Odd number of digits")
    \/ Rejected("InvalidChainHash: Invalid character")

\* C26, as stated: TradingApi::new gives every malformed response an error of
\* its own and no session: ChainIdCastError for a chain_id outside 64
\* unsigned bits, InvalidSchemaResponse for a schema without a text
\* chain_hash, InvalidChainHash for a chain_hash that is no hexadecimal
\* text, and InvalidChainHash with the length for one that is not of 32 bytes.
C26_MalformedHandshakeRejected ==
    [][IsNewStep =>
          LET text == StripPrefix(srv.schema.text) IN
          /\ ~FitsU64(srv.constants.chain_id) => Rejected("ChainIdCastError")
          /\ (FitsU64(srv.constants.chain_id) /\ srv.schema.ok) =>
                /\ srv.schema.kind # "string" =>
                       Rejected("InvalidSchemaResponse: chain_hash")
                /\ (srv.schema.kind = "string" /\ ~IsHex(text)) => HashRejected
                /\ (srv.schema.kind = "string" /\ IsHex(text) /\ Len(text) # 64) =>
                       Rejected("InvalidChainHash: expected 32 bytes, got "
                                \o ToString(Len(text) \div 2))]_vars

\* a session made from a chain_hash with 0x between its digits
C26_Accepted ==
    /\ txn.op = "new"
    /\ txn.stage = "none"
    /\ srv.schema.kind = "string"
    /\ ~IsHex(StripPrefix(srv.schema.text))
    /\ srv.schema.text[4] = "x"
    /\ txn.chain_hash = HashOf(1, 171)

\* what holds of new: as C26 with the text read after every 0x in it, not
\* the prefix alone, has been taken out
NewRejectsAfterReplace ==
    [][IsNewStep =>
          LET text == Replace0x(srv.schema.text) IN
          /\ ~FitsU64(srv.constants.chain_id) => Rejected("ChainIdCastError")
          /\ (FitsU64(srv.constants.chain_id) /\ srv.schema.ok) =>
                /\ srv.schema.kind # "string" =>
                       Rejected("InvalidSchemaResponse: chain_hash")
                /\ (srv.schema.kind = "string" /\ ~IsHex(text)) => HashRejected
                /\ (srv.schema.kind = "string" /\ IsHex(text) /\ Len(text) # 64) =>
                       Rejected("InvalidChainHash: expected 32 bytes, got "
                                \o ToString(Len(text) \div 2))
                /\ (srv.schema.kind = "string" /\ IsHex(text) /\ Len(text) = 64) =>
                       /\ txn'.stage = "none"
                       /\ txn'.chain_id = srv.constants.chain_id.lo
                       /\ HexOf(txn'.chain_hash) = [i \in 1..64 |->
                              IF IsHexDigit(text[i]) /\ HexValue(text[i]) >= 10
                              THEN HexDigits[HexValue(text[i]) + 1] ELSE text[i]]]_vars

\* the text with small letters for its capital digits
LowerHex(text) ==
    [i \in 1..Len(text) |->
        IF IsHexDigit(text[i]) THEN HexDigits[HexValue(text[i]) + 1] ELSE text[i]]

\* the session holds what the two endpoints answered at construction
HoldsHandshake(t) ==
    /\ t.chain_id = srv.constants.chain_id.lo
    /\ Len(t.chain_hash) = 32
    /\ HexOf(t.chain_hash) = LowerHex(Replace0x(srv.schema.text))

\* C27: once TradingApi::new has succeeded, chain_id() and chain_hash() are
\* what the two endpoints answered then, in every later state; no call of
\* build_transaction, sign_transaction, submit_transaction, sign_and_submit
\* or connect_ws changes them or asks either endpoint again; and every
\* signature is made with that chain hash.
C27_HandshakeOnceAndReadOnly ==
    [][txn'.stage # "absent" =>
          /\ HoldsHandshake(txn')
          /\ ChainIdOf(txn') = txn'.chain_id
          /\ ChainHashOf(txn') = txn'.chain_hash
          /\ srv'.fetched = [constants |-> 1, schema |-> 1]
          /\ txn.stage # "absent" =>
                /\ txn'.chain_id = txn.chain_id
                /\ txn'.chain_hash = txn.chain_hash
                /\ srv' = srv
          /\ IsSignStep => IsWhole(txn'.signed, SignInput, txn.chain_hash)
          /\ ~txn'.now.before /\ txn'.stage \in {"built", "signed", "submitted"} =>
                txn'.unsigned.details.chain_id = txn.chain_id]_vars

C27_Witness ==
    /\ txn.stage = "submitted"
    /\ txn.op = "submit"
    /\ last.op = "connect"
    /\ srv.fetched = [constants |-> 1, schema |-> 1]
    /\ srv.schema.text[2] = "x"
    /\ txn.chain_hash = HashOf(ChainHashLen, 1)
    /\ txn.chain_id = 2
    /\ IsWhole(txn.signed, txn.unsigned, txn.chain_hash)

---------------------------------------------------------------------------
(* Every write to the socket of an open session, beside what the session
   reads and the time that passes *)

NextWire ==
    \/ Subscribe(TestLists, OrderIds)
    \/ Unsubscribe(TestLists, OrderIds)
    \/ ListSubscriptions(OrderIds)
    \/ OrderPlace
    \/ OrderCancel
    \/ Send
    \/ SendFails
    \/ StartRecv
    \/ RecvStep
    \/ StreamYields
    \/ Tick

SpecWire == InitRecv /\ [][NextWire]_vars

---------------------------------------------------------------------------
(* Two sessions in one process, each handle with a task of its own. Here pc
   and last hold one value for each handle, and cur is the handle whose
   method ran last *)

\* mutant: every handle reads and writes the socket of the first one
SocketShared(s) == 1

\* WebsocketHandle { socket }: the socket a handle owns
SocketOf(s) == s

\* the two handles
Pair == {1, 2}

\* the items the server sends to either session
PeerItems == {Text(MarkPriceDoc), Ping, Close(1000, "bye"), ReadError, StreamEnd}

\* two connects have returned their handles
InitTwo ==
    /\ pc = [s \in Socks |-> "idle"]
    /\ cur = 0
    /\ cfg = 0
    /\ waited = 0
    /\ nsock = 2
    /\ sock = [s \in Socks |-> IF s \in Pair THEN "live" ELSE "none"]
    /\ handles = Pair
    /\ inq = [s \in Socks |-> <<>>]
    /\ out = [s \in Socks |-> <<>>]
    /\ hs = [s \in Socks |->
                IF s \in Pair THEN Hs("connected", <<RecvItem(Text(ConnectedDoc))>>)
                ELSE Hs("none", <<>>)]
    /\ last = [s \in Socks |-> NoResult]
    /\ prev = ""
    /\ rid = NoRid
    /\ srv = NoServer
    /\ call = NoCall
    /\ txn = NoTxn

\* recv is called on the handle s
RecvOn(s) ==
    /\ s \in handles
    /\ pc[s] = "idle"
    /\ pc' = [pc EXCEPT ![s] = "recv"]
    /\ last' = [last EXCEPT ![s] = NoResult]
    /\ cur' = s
    /\ UNCHANGED <<cfg, waited, nsock, sock, handles, inq, out, hs, prev, rid, srv, call, txn>>

\* self.socket.next().await yields an item to the recv pending on s
RecvStepOn(s) ==
    /\ s \in handles
    /\ pc[s] = "recv"
    /\ inq[SocketOf(s)] # <<>>
    /\ LET item == Head(inq[SocketOf(s)])
           r == RecvItem(item)
       IN /\ inq' = [inq EXCEPT ![SocketOf(s)] = Rest(@)]
          /\ IF r.done
             THEN /\ last' = [last EXCEPT ![s] = Result("recv", s, r, <<item>>)]
                  /\ pc' = [pc EXCEPT ![s] = "idle"]
             ELSE UNCHANGED <<pc, last>>
    /\ cur' = s
    /\ UNCHANGED <<cfg, waited, nsock, sock, handles, out, hs, prev, rid, srv, call, txn>>

\* send is called on the handle s; the socket write succeeds or fails
SendOn(s) ==
    \E written \in BOOLEAN :
        /\ s \in handles
        /\ pc[s] = "idle"
        /\ Len(out[SocketOf(s)]) < MaxSent
        /\ out' = IF written
                  THEN [out EXCEPT ![SocketOf(s)] =
                           Append(@, TextFrame(list_subscriptions(None)))]
                  ELSE out
        /\ last' = [last EXCEPT ![s] =
                       Result("send", s, IF written THEN Ok(NoMsg)
                                         ELSE Err(WsErr("WsUpgradeError")), <<>>)]
        /\ cur' = s
        /\ UNCHANGED <<pc, cfg, waited, nsock, sock, handles, inq, hs, prev, rid, srv, call, txn>>

\* the handle s is dropped, and its socket with it
DropOn(s) ==
    /\ s \in handles
    /\ pc[s] = "idle"
    /\ handles' = handles \ {s}
    /\ sock' = [sock EXCEPT ![SocketOf(s)] = "dropped"]
    /\ inq' = [inq EXCEPT ![SocketOf(s)] = <<>>]
    /\ out' = [out EXCEPT ![SocketOf(s)] = <<>>]
    /\ hs' = [hs EXCEPT ![SocketOf(s)] = Hs("dropped", <<>>)]
    /\ last' = [last EXCEPT ![s] = NoResult]
    /\ cur' = s
    /\ UNCHANGED <<pc, cfg, waited, nsock, prev, rid, srv, call, txn>>

\* the server sends an item to the session s once the last one was read
ServerSendsTo(s) ==
    \E item \in PeerItems :
        /\ sock[s] = "live"
        /\ inq[s] = <<>>
        /\ inq' = [inq EXCEPT ![s] = <<item>>]
        /\ UNCHANGED <<pc, cur, cfg, waited, nsock, sock, handles, out, hs, last, prev, rid, srv, call, txn>>

NextTwo ==
    \E s \in Pair :
        \/ RecvOn(s)
        \/ RecvStepOn(s)
        \/ SendOn(s)
        \/ DropOn(s)
        \/ ServerSendsTo(s)

\* a recv whose stream holds an item is polled: the runtime wakes its task
SpecTwo ==
    /\ InitTwo
    /\ [][NextTwo]_vars
    /\ WF_vars(RecvStepOn(1))
    /\ WF_vars(RecvStepOn(2))

---------------------------------------------------------------------------
(* The signing pipeline under concurrent callers: two tasks share one
   TradingApi (txn) and one keypair. Here pc and last hold one value for
   each caller, and call holds the shared keypair, each caller's buffer and
   each caller's locals and results *)

Callers == {1, 2}

\* mutant: the callers serialize into one buffer
BufferShared(c) == 1

\* let mut data = borsh::to_vec(..): a local of each call
BufferOf(c) == c

\* a caller that has made no call
NoLocals ==
    [tx |-> NoUnsigned, max_fee |-> 0, now |-> Reading(0, 0), unsigned |-> NoUnsigned,
     signed |-> NoSigned, wire |-> <<>>, sig |-> <<>>, call_msg |-> 0, stx |-> NoSigned]

NoReturn == [err |-> "", ok |-> FALSE, op |-> ""]

InitPipe ==
    /\ pc = [c \in Callers |-> "idle"]
    /\ cur = 0
    /\ cfg = 0
    /\ waited = 0
    /\ nsock = 0
    /\ sock = [s \in Socks |-> "none"]
    /\ handles = {}
    /\ inq = [s \in Socks |-> <<>>]
    /\ out = [s \in Socks |-> <<>>]
    /\ hs = [s \in Socks |-> Hs("none", <<>>)]
    /\ last = [c \in Callers |-> NoReturn]
    /\ prev = ""
    /\ rid = NoRid
    /\ srv = NoServer
    /\ \E keypair \in SecretKeys :
           call = [keypair |-> keypair,
                   buf |-> [c \in Callers |-> <<>>],
                   of |-> [c \in Callers |-> NoLocals]]
    /\ txn = [NoTxn EXCEPT !.chain_id = 1, !.chain_hash = HashOf(ChainHashLen, 1)]

\* the caller c goes on to pos with the locals loc, the buffer buf and the
\* result res
Advance(c, pos, loc, buf, res) ==
    /\ pc' = [pc EXCEPT ![c] = pos]
    /\ call' = [call EXCEPT !.of[c] = loc, !.buf[BufferOf(c)] = buf]
    /\ last' = [last EXCEPT ![c] = res]
    /\ UNCHANGED <<cur, cfg, waited, nsock, sock, handles, inq, out, hs, prev, rid, srv, txn>>

\* the caller c calls build_transaction with its call message and its fee
CallBuild(c) ==
    \E max_fee \in {c - 1} :
        /\ pc[c] = "idle"
        /\ Advance(c, "now",
                   [call.of[c] EXCEPT !.call_msg = c, !.max_fee = max_fee],
                   call.buf[BufferOf(c)], NoReturn)

\* SystemTime::now().duration_since(UNIX_EPOCH).map_err(..)?
BuildReadsClock(c) ==
    \E now \in Clock :
        /\ pc[c] = "now"
        /\ IF now.before
           THEN Advance(c, "idle", [call.of[c] EXCEPT !.now = now],
                        call.buf[BufferOf(c)],
                        [err |-> "SystemTimeError", ok |-> FALSE, op |-> "build"])
           ELSE Advance(c, "details", [call.of[c] EXCEPT !.now = now],
                        call.buf[BufferOf(c)], NoReturn)

\* chain_id: self.chain_id(), ..; Ok(UnsignedTransaction { .. })
BuildReturns(c) ==
    /\ pc[c] = "details"
    /\ LET l == call.of[c]
           tx == UnsignedTransaction(l.call_msg, as_millis(l.now), ChainIdOf(txn),
                                     l.max_fee)
       IN  Advance(c, "idle", [l EXCEPT !.unsigned = tx], call.buf[BufferOf(c)],
                   [err |-> "", ok |-> TRUE, op |-> "build"])

\* the caller c calls sign_transaction with the transaction it built
CallSign(c) ==
    /\ pc[c] = "idle"
    /\ call.of[c].unsigned # NoUnsigned
    /\ Advance(c, "to_vec", [call.of[c] EXCEPT !.tx = call.of[c].unsigned],
               call.buf[BufferOf(c)], NoReturn)

\* let mut data = borsh::to_vec(&tx)
SignSerializes(c) ==
    /\ pc[c] = "to_vec"
    /\ Advance(c, "extend", call.of[c], BorshUnsigned(call.of[c].tx), NoReturn)

\* data.extend_from_slice(self.chain_hash())
SignAppendsHash(c) ==
    /\ pc[c] = "extend"
    /\ Advance(c, "sign", call.of[c], call.buf[BufferOf(c)] \o ChainHashOf(txn),
               NoReturn)

\* keypair.sign(&data)
SignSigns(c) ==
    /\ pc[c] = "sign"
    /\ Advance(c, "public_key",
               [call.of[c] EXCEPT !.sig = Sign(call.keypair, call.buf[BufferOf(c)])],
               call.buf[BufferOf(c)], NoReturn)

\* keypair.public_key(); Ok(SignedTransaction::V0(..)); data is dropped
SignReturns(c) ==
    /\ pc[c] = "public_key"
    /\ LET l == call.of[c]
           signed == [runtime_call |-> l.tx.runtime_call,
                      uniqueness |-> l.tx.uniqueness, details |-> l.tx.details,
                      pub_key |-> PublicKey(call.keypair), signature |-> l.sig]
       IN  Advance(c, "idle",
                   [l EXCEPT !.signed = signed, !.sig = <<>>, !.tx = NoUnsigned], <<>>,
                   [err |-> "", ok |-> TRUE, op |-> "sign"])

\* the caller c calls sign_to_base64 with the transaction it signed
CallEncode(c) ==
    /\ pc[c] = "idle"
    /\ call.of[c].signed # NoSigned
    /\ Advance(c, "bytes", [call.of[c] EXCEPT !.stx = call.of[c].signed],
               call.buf[BufferOf(c)], NoReturn)

\* let bytes = borsh::to_vec(&signed)
EncodeSerializes(c) ==
    /\ pc[c] = "bytes"
    /\ Advance(c, "encode", call.of[c], BorshSigned(call.of[c].stx), NoReturn)

\* Ok(BASE64.encode(&bytes)); bytes is dropped
EncodeReturns(c) ==
    /\ pc[c] = "encode"
    /\ Advance(c, "idle",
               [call.of[c] EXCEPT !.wire = Base64(call.buf[BufferOf(c)]),
                                  !.stx = NoSigned],
               <<>>, [err |-> "", ok |-> TRUE, op |-> "encode"])

NextPipe ==
    \E c \in Callers :
        \/ CallBuild(c)
        \/ BuildReadsClock(c)
        \/ BuildReturns(c)
        \/ CallSign(c)
        \/ SignSerializes(c)
        \/ SignAppendsHash(c)
        \/ SignSigns(c)
        \/ SignReturns(c)
        \/ CallEncode(c)
        \/ EncodeSerializes(c)
        \/ EncodeReturns(c)

SpecPipe == InitPipe /\ [][NextPipe]_vars

---------------------------------------------------------------------------
(* Topics and their canonical strings. Here call holds two topics a caller
   has made and the strings it got from them *)

\* impl From<Topic> for String
from_topic(topic) == to_string(topic)

\* the symbols a caller passes: any string
Symbols == {"BTC-USD", "", "BTC-USD@aggTrade", "!ticker"}

Depths == {"D5", "D10", "D20"}
Intervals == {"M1", "M5", "M15", "M30", "H1", "H4", "D1"}

\* the values of Topic, as its constructors make them
Topics ==
    {Topic(k, s, "") : k \in {"AggTrade", "BookTicker", "MarkPrice", "ForceOrder"},
                       s \in Symbols}
    \cup {Topic("Depth", s, d) : s \in Symbols, d \in Depths}
    \cup {Topic("Kline", s, i) : s \in Symbols, i \in Intervals}
    \cup {Topic(k, "", "") : k \in {"AllTickers", "AllMarkPrices", "AllBookTickers",
                                    "AllForceOrders"}}

InitTopics ==
    /\ pc = "idle"
    /\ cur = 0
    /\ cfg = 0
    /\ waited = 0
    /\ nsock = 0
    /\ sock = [s \in Socks |-> "none"]
    /\ handles = {}
    /\ inq = [s \in Socks |-> <<>>]
    /\ out = [s \in Socks |-> <<>>]
    /\ hs = [s \in Socks |-> Hs("none", <<>>)]
    /\ last = NoResult
    /\ prev = ""
    /\ rid = NoRid
    /\ srv = NoServer
    /\ \E a \in Topics, b \in Topics :
           call = [b |-> b, done |-> {}, a |-> a, sa |-> "", sb |-> "", into |-> ""]
    /\ txn = NoTxn

\* a.to_string()
ToStringA ==
    /\ "a" \notin call.done
    /\ call' = [call EXCEPT !.sa = to_string(call.a), !.done = @ \cup {"a"}]
    /\ UNCHANGED <<pc, cur, cfg, waited, nsock, sock, handles, inq, out, hs, last, prev,
                   rid, srv, txn>>

\* b.to_string()
ToStringB ==
    /\ "b" \notin call.done
    /\ call' = [call EXCEPT !.sb = to_string(call.b), !.done = @ \cup {"b"}]
    /\ UNCHANGED <<pc, cur, cfg, waited, nsock, sock, handles, inq, out, hs, last, prev,
                   rid, srv, txn>>

\* let s: String = a.into()
IntoString ==
    /\ "into" \notin call.done
    /\ call' = [call EXCEPT !.into = from_topic(call.a), !.done = @ \cup {"into"}]
    /\ UNCHANGED <<pc, cur, cfg, waited, nsock, sock, handles, inq, out, hs, last, prev,
                   rid, srv, txn>>

NextTopics ==
    \/ ToStringA
    \/ ToStringB
    \/ IntoString

SpecTopics == InitTopics /\ [][NextTopics]_vars

---------------------------------------------------------------------------
(* TradingApi::new step by step: the URL, then the constants endpoint, then
   the schema endpoint.  pc is the place of the call ("idle", "constants",
   "schema"), call holds its locals, srv.fetched counts the requests each
   endpoint has received *)

NewLocals(url, ws_url, chain_id) ==
    [op |-> "new", chain_id |-> chain_id, ws_url |-> ws_url, url |-> url]

\* the caller after new has returned the error err
NewFails(err) == [txn EXCEPT !.op = "new", !.err = err]

\* Url::parse and the match on the scheme
NewParsesUrl ==
    \E url \in Urls :
        /\ pc = "idle"
        /\ txn.stage = "absent"
        /\ txn.op = ""
        /\ LET ws == ws_url_of(url) IN
              /\ call' = NewLocals(url, ws.ws_url, 0)
              /\ IF ws.ok
                 THEN pc' = "constants" /\ txn' = txn
                 ELSE pc' = "idle" /\ txn' = NewFails("InvalidNetworkUrl")
        /\ UNCHANGED <<cur, cfg, waited, nsock, sock, handles, inq, out, hs, last,
                       prev, rid, srv>>

\* mutant: new goes on to the schema whatever the constants endpoint answered
NewGetsConstantsGoesOn ==
    /\ pc = "constants"
    /\ srv' = [srv EXCEPT !.fetched.constants = @ + 1]
    /\ pc' = "schema"
    /\ call' = [call EXCEPT !.chain_id = srv.constants.chain_id.lo]
    /\ UNCHANGED <<cur, cfg, waited, nsock, sock, handles, inq, out, hs, last,
                   prev, rid, txn>>

\* generated_client.constants().await? and u64::try_from(constants.chain_id)
NewGetsConstants ==
    /\ pc = "constants"
    /\ srv' = [srv EXCEPT !.fetched.constants = @ + 1]
    /\ LET chain_id == try_from(srv.constants.chain_id) IN
          IF ~srv.constants.ok
          THEN pc' = "idle" /\ txn' = NewFails("ApiError") /\ call' = call
          ELSE IF ~chain_id.ok
          THEN pc' = "idle" /\ txn' = NewFails("ChainIdCastError") /\ call' = call
          ELSE /\ pc' = "schema"
               /\ txn' = txn
               /\ call' = [call EXCEPT !.chain_id = chain_id.v]
    /\ UNCHANGED <<cur, cfg, waited, nsock, sock, handles, inq, out, hs, last,
                   prev, rid>>

\* generated_client.schema().await?, the chain_hash of the schema decoded,
\* and the session made
NewGetsSchema ==
    /\ pc = "schema"
    /\ srv' = [srv EXCEPT !.fetched.schema = @ + 1]
    /\ pc' = "idle"
    /\ LET decoded == hex_decode(Replace0x(srv.schema.text)) IN
          txn' = IF ~srv.schema.ok THEN NewFails("ApiError")
                 ELSE IF srv.schema.kind # "string"
                 THEN NewFails("InvalidSchemaResponse: chain_hash")
                 ELSE IF ~decoded.ok
                 THEN NewFails("InvalidChainHash: " \o decoded.err)
                 ELSE IF Len(decoded.bytes) # ChainHashLen
                 THEN NewFails("InvalidChainHash: expected 32 bytes, got "
                               \o ToString(Len(decoded.bytes)))
                 ELSE [txn EXCEPT !.stage = "none", !.op = "new", !.err = "",
                                  !.chain_id = call.chain_id,
                                  !.chain_hash = decoded.bytes,
                                  !.ws_url = call.ws_url]
    /\ UNCHANGED <<cur, cfg, waited, nsock, sock, handles, inq, out, hs, last,
                   prev, rid, call>>

NextNew ==
    \/ NewParsesUrl
    \/ NewGetsConstants
    \/ NewGetsSchema

SpecNew == InitNew /\ [][NextNew]_vars

---------------------------------------------------------------------------
(* The loop of recv over ping and pong frames, in the handshake wait and on
   the handle.  call.skipped counts the times the loop of the pending recv
   has come to `_ => continue`; the first recv is the one of the handshake *)

MaxSkips == 2

NoSkips == [skipped |-> 0]

ControlItems == {Ping, Pong}

InitControl ==
    /\ pc = "handshake"
    /\ cur = 1
    /\ cfg \in Timeouts
    /\ waited = 0
    /\ nsock = 1
    /\ sock = [s \in Socks |-> IF s = 1 THEN "live" ELSE "none"]
    /\ handles = {}
    /\ inq = [s \in Socks |-> <<>>]
    /\ out = [s \in Socks |-> <<>>]
    /\ hs = [s \in Socks |-> IF s = 1 THEN Hs("waiting", <<>>) ELSE Hs("none", <<>>)]
    /\ last = NoResult
    /\ prev = ""
    /\ rid = NoRid
    /\ srv = NoServer
    /\ call = NoSkips
    /\ txn = NoTxn

\* the stream yields its next item to the pending recv
YieldsNext ==
    \E item \in SessionItems \cup ControlItems :
        /\ pc \in {"handshake", "recv"}
        /\ inq[cur] = <<>>
        /\ item \in ControlItems => call.skipped < MaxSkips
        /\ inq' = [inq EXCEPT ![cur] = <<item>>]
        /\ UNCHANGED <<pc, cur, cfg, waited, nsock, sock, handles, out, hs, last,
                       prev, rid, srv, call, txn>>

\* one turn of the loop of the handshake recv
PollHandshake ==
    /\ pc = "handshake"
    /\ inq[cur] # <<>>
    /\ LET item == Head(inq[cur])
           r == RecvItem(item)
           w == HandshakeResult(r)
       IN IF r.done
          THEN FinishConnect(w, IF w.ok THEN "connected" ELSE "rejected", <<r>>, <<item>>)
          ELSE /\ inq' = [inq EXCEPT ![cur] = Tail(@)]
               /\ call' = [call EXCEPT !.skipped = @ + 1]
               /\ UNCHANGED <<pc, cur, cfg, waited, nsock, sock, handles, out, hs,
                              last, prev, rid, srv, txn>>

\* recv is called on the handle
BeginRecv ==
    \E s \in handles :
        /\ pc = "idle"
        /\ pc' = "recv"
        /\ cur' = s
        /\ waited' = 0
        /\ last' = NoResult
        /\ prev' = IF last.op = "recv" /\ last.sock = s
                   THEN (IF last.ok THEN last.msg.variant ELSE last.err.kind)
                   ELSE ""
        /\ rid' = NoRid
        /\ call' = NoSkips
        /\ UNCHANGED <<cfg, nsock, sock, handles, inq, out, hs, srv, txn>>

\* one turn of the loop of recv
PollRecv ==
    /\ pc = "recv"
    /\ inq[cur] # <<>>
    /\ LET item == Head(inq[cur])
           r == RecvItem(item)
       IN /\ inq' = [inq EXCEPT ![cur] = Rest(@)]
          /\ IF r.done
             THEN /\ last' = Result("recv", cur, r, <<item>>)
                  /\ pc' = "idle"
                  /\ cur' = 0
                  /\ waited' = 0
                  /\ call' = call
             ELSE /\ call' = [call EXCEPT !.skipped = @ + 1]
                  /\ UNCHANGED <<pc, cur, waited, last>>
    /\ UNCHANGED <<cfg, nsock, sock, handles, out, hs, prev, rid, srv, txn>>

NextControl ==
    \/ YieldsNext
    \/ PollHandshake
    \/ TimerFires
    \/ Tick
    \/ BeginRecv
    \/ PollRecv

SpecControl == InitControl /\ [][NextControl]_vars

---------------------------------------------------------------------------
(* The frames of one connection in the order the server sent them, from the
   handshake wait on.  call.sent is every item the transport has taken from
   the server, inq[1] the ones not yet read, call.got the messages that the
   calls of recv on the handle have returned *)

MaxFrames == 4

OrderItems == {Text(ConnectedDoc), Text(MarkPriceDoc), Binary(SubscribeDoc), Ping}

InitOrder ==
    /\ pc = "handshake"
    /\ cur = 1
    /\ cfg = DEFAULT_CONNECTION_TIMEOUT_SECS
    /\ waited = 0
    /\ nsock = 1
    /\ sock = [s \in Socks |-> IF s = 1 THEN "live" ELSE "none"]
    /\ handles = {}
    /\ inq = [s \in Socks |-> <<>>]
    /\ out = [s \in Socks |-> <<>>]
    /\ hs = [s \in Socks |-> IF s = 1 THEN Hs("waiting", <<>>) ELSE Hs("none", <<>>)]
    /\ last = NoResult
    /\ prev = ""
    /\ rid = NoRid
    /\ srv = NoServer
    /\ call = [got |-> <<>>, sent |-> <<>>]
    /\ txn = NoTxn

\* the transport takes one more item from the server
ServerDelivers ==
    \E item \in OrderItems :
        /\ sock[1] = "live"
        /\ Len(call.sent) < MaxFrames
        /\ Len(inq[1]) < MaxQueue
        /\ inq' = [inq EXCEPT ![1] = Append(@, item)]
        /\ call' = [call EXCEPT !.sent = Append(@, item)]
        /\ UNCHANGED <<pc, cur, cfg, waited, nsock, sock, handles, out, hs, last,
                       prev, rid, srv, txn>>

\* mutant: the loop of recv reads one frame more than it returns
RecvTakesTwo ==
    /\ pc = "recv"
    /\ inq[cur] # <<>>
    /\ LET item == Head(inq[cur])
           r == RecvItem(item)
       IN /\ inq' = [inq EXCEPT ![cur] = IF Len(@) > 1 THEN Tail(Tail(@)) ELSE Tail(@)]
          /\ IF r.done
             THEN /\ last' = Result("recv", cur, r, <<item>>)
                  /\ call' = IF r.ok THEN [call EXCEPT !.got = Append(@, r.msg)] ELSE call
                  /\ pc' = "idle"
                  /\ cur' = 0
                  /\ waited' = 0
             ELSE UNCHANGED <<pc, cur, waited, last, call>>
    /\ UNCHANGED <<cfg, nsock, sock, handles, out, hs, prev, rid, srv, txn>>

\* one turn of the loop of recv; the caller keeps the message returned
RecvTakesOne ==
    /\ pc = "recv"
    /\ inq[cur] # <<>>
    /\ LET item == Head(inq[cur])
           r == RecvItem(item)
       IN /\ inq' = [inq EXCEPT ![cur] = Rest(@)]
          /\ IF r.done
             THEN /\ last' = Result("recv", cur, r, <<item>>)
                  /\ call' = IF r.ok THEN [call EXCEPT !.got = Append(@, r.msg)] ELSE call
                  /\ pc' = "idle"
                  /\ cur' = 0
                  /\ waited' = 0
             ELSE UNCHANGED <<pc, cur, waited, last, call>>
    /\ UNCHANGED <<cfg, nsock, sock, handles, out, hs, prev, rid, srv, txn>>

NextOrder ==
    \/ ServerDelivers
    \/ HandshakeRecv
    \/ StartRecv
    \/ RecvTakesOne
    \/ Send
    \/ SendFails

SpecOrder == InitOrder /\ [][NextOrder]_vars

---------------------------------------------------------------------------
(* The life of a session: connect, then calls of recv on the handle;
   nothing is sent, cancelled or dropped *)

NextLife ==
    \/ ConnectWsWithConfig
    \/ SendUpgradeFails
    \/ SendUpgradeOk
    \/ IntoWebsocketOk
    \/ IntoWebsocketFails
    \/ HandshakeRecv
    \/ TimerFires
    \/ StartRecv
    \/ RecvStep
    \/ StreamYields
    \/ Tick

SpecLife == Init /\ [][NextLife]_vars

---------------------------------------------------------------------------
(* Properties of the network operations, under SpecNet *)

\* the variants of WSErrors a failed connect or send returns
ConnectErrors ==
    {"WsUpgradeError", "WsHandshakeFailed", "WsConnectionTimeout", "WsClosed",
     "WsStreamEnded"}

\* the step returns from connect
IsConnectReturn == pc \in {"send", "upgrade", "handshake"} /\ pc' = "idle"

\* the step returns from send or from a request method
IsSendReturn ==
    /\ pc = "idle" /\ pc' = "idle"
    /\ last'.op = "send"
    /\ last' # last \/ out' # out \/ call' # call

\* the step is the POST of submit_transaction
IsPostStep == txn' # txn

\* C28: nothing is tried twice. One call of connect sends one upgrade
\* request (at most one socket is opened, and only by the step that follows
\* the call) and waits for the handshake once; one call of send or of a
\* request method writes at most one frame; one submit_transaction posts
\* once; and a failure of any of them ends the call with a typed error,
\* with no socket opened, no frame written and no request posted after it.
C28_NoRetry ==
    [][/\ pc' # pc =>
             <<pc, pc'>> \in {<<"idle", "send">>, <<"send", "upgrade">>,
                              <<"send", "idle">>, <<"upgrade", "handshake">>,
                              <<"upgrade", "idle">>, <<"handshake", "idle">>}
       /\ pc' = pc /\ pc \in {"send", "upgrade"} => IsPostStep
       /\ nsock' # nsock => pc = "send" /\ nsock' = nsock + 1 /\ pc' = "upgrade"
       /\ IsConnectReturn =>
             /\ last'.op = "connect"
             /\ nsock' = nsock
             /\ out' = out
             /\ ~last'.ok =>
                   /\ last'.err.kind \in ConnectErrors
                   /\ handles' = handles
                   /\ \A s \in Socks : sock'[s] = "live" => s \in handles
       /\ \A s \in Socks :
             \/ out'[s] = out[s]
             \/ /\ IsSendReturn /\ last'.ok /\ last'.sock = s
                /\ Len(out'[s]) = Len(out[s]) + 1
                /\ SubSeq(out'[s], 1, Len(out[s])) = out[s]
       /\ IsSendReturn =>
             /\ nsock' = nsock /\ sock' = sock /\ handles' = handles
             /\ ~last'.ok => out' = out /\ last'.err.kind = "WsUpgradeError"
       /\ IsPostStep =>
             /\ txn.stage = "signed" /\ txn'.stage = "submitted"
             /\ txn'.posts = txn.posts + 1
             /\ txn'.posts = 1
             /\ txn'.err \in {"", "ApiError"}
             /\ pc' = pc /\ nsock' = nsock /\ out' = out
       /\ txn.stage = "submitted" => txn' = txn]_vars

C28_Witness ==
    /\ call.op = "list_subscriptions"
    /\ ~call.ok
    /\ 1 \in handles
    /\ out[1] = <<>>
    /\ last.op = "connect"
    /\ last.err.kind = "WsConnectionTimeout"
    /\ nsock = 2
    /\ sock[2] = "dropped"
    /\ txn.err = "ApiError"
    /\ txn.posts = 1

---------------------------------------------------------------------------
(* Properties of the writes to the socket, under SpecWire *)

\* the frame of the ClientMessage that the request method called last builds
ExpectedFrame(c) ==
    CASE c.op \in {"subscribe", "unsubscribe"} -> RequestFrame(c)
      [] c.op \in {"order_place", "order_cancel"} -> OrderFrame(c)
      [] OTHER -> [kind |-> "text",
                   json |-> [id |-> c.id, method |-> "LIST_SUBSCRIPTIONS",
                             params |-> <<>>]]

\* the frames a call made in this step may write: the ClientMessage given to
\* send, or the one message of the request method called
CallFrames ==
    {[kind |-> "text", json |-> m] : m \in Requests}
        \cup (IF call'.op # "" /\ call'.ok THEN {ExpectedFrame(call')} ELSE {})

\* C29: there is no heartbeat. The frames written to a socket change only
\* in a step in which the caller's send or request method returns Ok, and
\* then by exactly one frame, the serialization of the ClientMessage of that
\* call; a step that reads an inbound frame (a ping frame included), a step
\* in which the stream yields an item, and a step in which time passes
\* write nothing.
C29_NoHeartbeat ==
    [][/\ \A s \in Socks :
             \/ out'[s] = out[s]
             \/ /\ pc = "idle" /\ pc' = "idle"
                /\ last'.op = "send" /\ last'.ok /\ last'.sock = s
                /\ \E f \in CallFrames : out'[s] = Append(out[s], f)
       /\ (inq' # inq \/ waited' # waited \/ pc # "idle" \/ pc' # "idle") => out' = out]_vars

C29_Witness ==
    /\ pc = "recv"
    /\ waited = MaxTime
    /\ prev = "Unknown"
    /\ inq[1] # <<>>
    /\ inq[1][1].kind = "ping"
    /\ call.op = "order_cancel"
    /\ out[1] = <<OrderFrame(call)>>

---------------------------------------------------------------------------
(* Properties of two sessions in one process, under SpecTwo *)

\* the step changes something of the session s
Touched(s) ==
    \/ sock'[s] # sock[s]
    \/ inq'[s] # inq[s]
    \/ out'[s] # out[s]
    \/ pc'[s] # pc[s]
    \/ last'[s] # last[s]
    \/ (s \in handles') # (s \in handles)

\* the step is a call on a handle, or the progress of one
IsHandleStep == pc' # pc \/ last' # last \/ out' # out \/ handles' # handles \/ cur' # cur

\* the recv pending on t has an item to return
CanReturn(t) ==
    /\ pc[t] = "recv"
    /\ inq[t] # <<>>
    /\ inq[t][1].kind \notin {"ping", "pong"}

\* C30: two sessions do not interfere. A step of an operation on one handle
\* (send, recv, a drop, a failure) and a step of the server towards one
\* session leave the socket, the inbound items, the written frames, the
\* pending call and the last result of the other session unchanged; what a
\* recv returns is the next item of its own stream; and a recv whose stream
\* holds a frame returns, whatever the other handle does, a recv on the
\* other handle that stays pending for ever included.
C30_SessionsIndependent ==
    /\ [][/\ \A s \in Pair, t \in Pair : s # t => ~(Touched(s) /\ Touched(t))
          /\ IsHandleStep => \A t \in Pair : t # cur' => ~Touched(t)
          /\ \A s \in Pair :
                last'[s] # last[s] /\ last'[s].op = "recv" =>
                    /\ inq[s] # <<>>
                    /\ last'[s] = Result("recv", s, RecvItem(Head(inq[s])), <<Head(inq[s])>>)
                    /\ inq'[s] = Rest(inq[s])]_vars
    /\ (CanReturn(1) ~> pc[1] = "idle")
    /\ (CanReturn(2) ~> pc[2] = "idle")

\* the handle 2 has sent and then received while a recv on the handle 1 is
\* pending with nothing to read
C30_Witness ==
    /\ pc[1] = "recv"
    /\ inq[1] = <<>>
    /\ cur = 2
    /\ pc[2] = "idle"
    /\ last[2].op = "recv"
    /\ last[2].ok
    /\ Len(out[2]) = 1
    /\ out[1] = <<>>

---------------------------------------------------------------------------
(* Properties of the pipeline under concurrent callers, under SpecPipe *)

\* the call of c returns in this step
Returns(c) == pc[c] # "idle" /\ pc'[c] = "idle"

\* what the call that returns to c gives when nothing else runs: the
\* function of its arguments, of the clock reading and of the session
AloneResult(c) ==
    LET l == [call.of[c] EXCEPT !.now = call'.of[c].now] IN
    CASE last'[c].op = "build" ->
            LET r == build_transaction(txn.chain_id, l.call_msg, l.max_fee, l.now)
            IN  [err |-> r.err, ok |-> r.ok,
                 unsigned |-> IF r.ok THEN r.tx ELSE call.of[c].unsigned,
                 signed |-> call.of[c].signed, wire |-> call.of[c].wire]
      [] last'[c].op = "sign" ->
            LET r == sign_transaction(l.tx, call.keypair, txn.chain_hash)
            IN  [err |-> r.err, ok |-> r.ok, unsigned |-> call.of[c].unsigned,
                 signed |-> IF r.ok THEN r.tx ELSE call.of[c].signed,
                 wire |-> call.of[c].wire]
      [] OTHER ->
            [err |-> "", ok |-> TRUE, unsigned |-> call.of[c].unsigned,
             signed |-> call.of[c].signed, wire |-> sign_to_base64(l.stx)]

\* C31: with two callers running build_transaction, sign_transaction and
\* sign_to_base64 on one TradingApi and one keypair, their steps interleaved
\* in any way, every call returns what it returns when run alone with the same
\* arguments and clock reading, and no step changes the chain id, the chain
\* hash or the keypair.
C31_PipelineConcurrent ==
    [][/\ txn' = txn
       /\ call'.keypair = call.keypair
       /\ \A c \in Callers :
             Returns(c) =>
                LET a == AloneResult(c) IN
                /\ last'[c].ok = a.ok
                /\ last'[c].err = a.err
                /\ call'.of[c].unsigned = a.unsigned
                /\ call'.of[c].signed = a.signed
                /\ call'.of[c].wire = a.wire]_vars

\* the caller 2 has signed and is encoding while the caller 1 is between the
\* serialization and the signature
C31_Witness ==
    /\ pc[1] = "sign"
    /\ pc[2] = "encode"
    /\ call.buf[1] # <<>>
    /\ call.buf[2] # <<>>
    /\ call.of[2].signed # NoSigned
    /\ call.of[1].wire # <<>>

---------------------------------------------------------------------------
(* Properties of the canonical strings, under SpecTopics *)

\* the stream name and the parameter of a symbol-scoped topic
StreamOf(t) ==
    CASE t.kind = "AggTrade" -> "aggTrade"
      [] t.kind = "Depth" -> "depth"
      [] t.kind = "BookTicker" -> "bookTicker"
      [] t.kind = "MarkPrice" -> "markPrice"
      [] t.kind = "Kline" -> "kline"
      [] t.kind = "ForceOrder" -> "forceOrder"

ParamOf(t) ==
    CASE t.kind = "Depth" ->
            (CASE t.arg = "D5" -> "5" [] t.arg = "D10" -> "10" [] t.arg = "D20" -> "20")
      [] t.kind = "Kline" ->
            (CASE t.arg = "M1" -> "_1m" [] t.arg = "M5" -> "_5m" [] t.arg = "M15" -> "_15m"
               [] t.arg = "M30" -> "_30m" [] t.arg = "H1" -> "_1h" [] t.arg = "H4" -> "_4h"
               [] t.arg = "D1" -> "_1d")
      [] OTHER -> ""

\* the stream name of a venue-wide topic
VenueStreamOf(t) ==
    CASE t.kind = "AllTickers" -> "ticker"
      [] t.kind = "AllMarkPrices" -> "markPrice"
      [] t.kind = "AllBookTickers" -> "bookTicker"
      [] t.kind = "AllForceOrders" -> "forceOrder"

IsVenueWide(t) ==
    t.kind \in {"AllTickers", "AllMarkPrices", "AllBookTickers", "AllForceOrders"}

\* <SYMBOL>@<stream>[<param>], or !<stream>@arr
CanonicalString(t) ==
    IF IsVenueWide(t) THEN "!" \o VenueStreamOf(t) \o "@arr"
    ELSE t.symbol \o "@" \o StreamOf(t) \o ParamOf(t)

\* C32: to_string of a topic is its canonical string: the symbol unchanged,
\* "@", the stream name and the depth level or "_" and the interval code for
\* a symbol-scoped topic, "!", the stream name and "@arr" for a venue-wide
\* one; and converting the topic into a String gives the same string.
C32_CanonicalString ==
    /\ "a" \in call.done => call.sa = CanonicalString(call.a)
    /\ "b" \in call.done => call.sb = CanonicalString(call.b)
    /\ "into" \in call.done => call.into = CanonicalString(call.a)
    /\ {"a", "into"} \subseteq call.done => call.into = call.sa

C32_Witness ==
    /\ call.a = Topic("Kline", "BTC-USD", "H4")
    /\ call.b = Topic("AllBookTickers", "", "")
    /\ call.done = {"a", "b", "into"}
    /\ call.sa = "BTC-USD@kline_4h"
    /\ call.sb = "!bookTicker@arr"
    /\ call.into = "BTC-USD@kline_4h"

\* C33: canonicalization is one-to-one: two topics are equal (same variant,
\* symbol, depth and interval) exactly when their canonical strings are
\* equal, whatever the symbols are, a symbol that holds "@" and a stream name
\* or begins with "!" included.
C33_CanonicalOneToOne ==
    {"a", "b"} \subseteq call.done => ((call.a = call.b) <=> (call.sa = call.sb))

\* two topics that differ in that the symbol of one is the canonical string
\* of the other
C33_Witness ==
    /\ {"a", "b"} \subseteq call.done
    /\ call.a = Topic("AggTrade", "BTC-USD@aggTrade", "")
    /\ call.b = Topic("AggTrade", "BTC-USD", "")
    /\ call.into = "BTC-USD@aggTrade@aggTrade"
    /\ call.sa # call.sb

---------------------------------------------------------------------------
(* Properties of the life of a session, under SpecLife *)

\* how far the connection s has come: not made, Connecting, AwaitingHandshake,
\* Open, and over (failed, rejected, timed out, cancelled or dropped)
Rank(s) ==
    CASE hs[s].state = "none" -> 0
      [] hs[s].state = "upgrading" -> 1
      [] hs[s].state = "waiting" -> 2
      [] hs[s].state = "connected" -> 3
      [] OTHER -> 4

RankAfter(s) ==
    CASE hs'[s].state = "none" -> 0
      [] hs'[s].state = "upgrading" -> 1
      [] hs'[s].state = "waiting" -> 2
      [] hs'[s].state = "connected" -> 3
      [] OTHER -> 4

\* the states of a connection come in their order, none of the first three
\* left out on the way to Open, and the caller holds the handle of an Open
\* connection only
MovesForward ==
    (hs' # hs \/ handles' # handles) =>
        \A s \in Socks :
            /\ RankAfter(s) >= Rank(s)
            /\ RankAfter(s) \in 1..3 => RankAfter(s) <= Rank(s) + 1
            /\ s \in handles' => RankAfter(s) = 3

\* the errors of recv that close a session
ClosingErrors == {"WsClosed", "WsUpgradeError", "WsStreamEnded"}

\* recv meets a close frame, a read error or the end of the stream: it
\* returns the error of that item
ClosesOnItem ==
    (Reads /\ Head(inq[cur]).kind \in {"close", "error", "end"}) =>
        /\ pc' = "idle"
        /\ last'.op = "recv"
        /\ ~last'.ok
        /\ last'.err.kind =
              (CASE Head(inq[cur]).kind = "close" -> "WsClosed"
                 [] Head(inq[cur]).kind = "error" -> "WsUpgradeError"
                 [] OTHER -> "WsStreamEnded")

C34_MessageAfterClose ==
    /\ last.op = "recv"
    /\ prev = "WsClosed"
    /\ last.ok
    /\ last.msg.variant = "Tagged"

---------------------------------------------------------------------------
(* sign_and_submit against its three steps, under SpecApi *)

\* the caller t after build_transaction, sign_transaction and
\* submit_transaction have been called one after the other on the same
\* inputs, each called only when the one before has returned Ok
InSequence(t, call_msg, max_fee, now, keypair, answered) ==
    LET b == build_transaction(ChainIdOf(t), call_msg, max_fee, now)
        t1 == IF b.ok
              THEN [t EXCEPT !.stage = "built", !.err = "", !.op = "build",
                             !.now = now, !.unsigned = b.tx, !.signed = NoSigned,
                             !.posted = <<>>, !.wire = <<>>, !.nenc = 0, !.posts = 0]
              ELSE [t EXCEPT !.err = b.err, !.op = "build", !.now = now]
        s == sign_transaction(t1.unsigned, keypair, ChainHashOf(t1))
        t2 == IF s.ok
              THEN [t1 EXCEPT !.stage = "signed", !.err = "", !.op = "sign",
                              !.signed = s.tx]
              ELSE [t1 EXCEPT !.err = s.err, !.op = "sign"]
        t3 == [t2 EXCEPT !.stage = "submitted",
                         !.posted = sign_to_base64(t2.signed),
                         !.posts = @ + 1, !.op = "submit",
                         !.err = IF answered THEN "" ELSE "ApiError"]
    IN  IF ~b.ok THEN t1 ELSE IF ~s.ok THEN t2 ELSE t3

\* a call of sign_and_submit has returned
SignAndSubmitReturns == txn'.op = "sign_and_submit" /\ txn' # txn

\* C35: a call of sign_and_submit leaves the caller as the three calls made
\* in order on the same inputs do: the same result, the same body posted,
\* the later steps not made after a failure, and nothing posted when
\* building or signing has failed.
C35_SignAndSubmitInSequence ==
    [][SignAndSubmitReturns =>
          /\ \E call_msg \in CallMessages, max_fee \in Fees, now \in Clock,
                keypair \in SecretKeys, answered \in BOOLEAN :
                 txn' = [InSequence(txn, call_msg, max_fee, now, keypair, answered)
                            EXCEPT !.op = "sign_and_submit"]
          /\ txn'.err \notin {"", "ApiError"} =>
                 /\ txn'.posted = txn.posted
                 /\ txn'.posts = txn.posts
                 /\ txn'.stage = txn.stage
          /\ txn'.err \in {"", "ApiError"} =>
                 /\ txn'.posts = 1
                 /\ txn'.posted = sign_to_base64(txn'.signed)
                 /\ \E keypair \in SecretKeys :
                        txn'.signed = sign_transaction(txn'.unsigned, keypair,
                                                       ChainHashOf(txn)).tx]_vars

\* sign_and_submit has built, signed and posted a transaction with the fee 1
C35_Witness ==
    /\ txn.op = "sign_and_submit"
    /\ txn.stage = "submitted"
    /\ txn.err = ""
    /\ txn.posts = 1
    /\ txn.posted # <<>>
    /\ txn.posted = sign_to_base64(txn.signed)
    /\ txn.unsigned.details.max_fee = 1

---------------------------------------------------------------------------
(* Properties of the order of TradingApi::new, under SpecNew *)

\* the URL parses and its scheme is http or https
ValidUrl(url) == url.parses /\ url.scheme \in {"http", "https"}

\* a request reaches the endpoint e in this step
Fetches(e) == srv'.fetched[e] # srv.fetched[e]

\* new returns in this step
NewReturns == pc' = "idle" /\ txn'.op = "new" /\ txn.op = ""

\* C36: new works in a fixed order and stops at the first failure: the URL is
\* validated before any request (a URL that does not parse or has another
\* scheme gives InvalidNetworkUrl and no request), then the constants
\* endpoint is read, then the schema endpoint; the schema is never read when
\* reading the constants or the chain_id check failed; each endpoint is read
\* at most once.
C36_NewInOrder ==
    [][/\ Fetches("constants") =>
             /\ ValidUrl(call.url)
             /\ srv.fetched = [constants |-> 0, schema |-> 0]
             /\ srv'.fetched = [constants |-> 1, schema |-> 0]
       /\ Fetches("schema") =>
             /\ ValidUrl(call.url)
             /\ srv.constants.ok
             /\ FitsU64(srv.constants.chain_id)
             /\ srv.fetched = [constants |-> 1, schema |-> 0]
             /\ srv'.fetched = [constants |-> 1, schema |-> 1]
       /\ NewReturns =>
             LET r == new(call'.url, srv.constants, srv.schema) IN
             /\ txn'.err = (IF r.detail = "" THEN r.err ELSE r.err \o ": " \o r.detail)
             /\ \A e \in {"constants", "schema"} :
                   srv'.fetched[e] = Cardinality({i \in 1..Len(r.asked) : r.asked[i] = e})
             /\ ~ValidUrl(call'.url) =>
                   /\ txn'.err = "InvalidNetworkUrl"
                   /\ srv'.fetched = [constants |-> 0, schema |-> 0]
             /\ (ValidUrl(call'.url)
                   /\ (~srv.constants.ok \/ ~FitsU64(srv.constants.chain_id))) =>
                   /\ txn'.err \in {"ApiError", "ChainIdCastError"}
                   /\ srv'.fetched = [constants |-> 1, schema |-> 0]
             /\ txn'.stage = "none" => srv'.fetched = [constants |-> 1, schema |-> 1]]_vars

\* new has failed on a chain_id of more than 64 bits: the constants were
\* read once and the schema was not read
C36_Witness ==
    /\ pc = "idle"
    /\ txn.op = "new"
    /\ txn.err = "ChainIdCastError"
    /\ call.url.scheme = "https"
    /\ srv.constants.chain_id.hi = 1
    /\ srv.schema.ok
    /\ srv.fetched = [constants |-> 1, schema |-> 0]

---------------------------------------------------------------------------
(* Properties of a handshake that ends in an error of recv, under SpecLife *)

\* connect has returned on the item that its handshake recv read
ConnectEndedOn(kinds) ==
    /\ last.op = "connect"
    /\ last.item # <<>>
    /\ LastItem.kind \in kinds

\* C37: when the handshake recv ends with an error before the timer fires
\* (a close frame, the end of the stream, a read error), connect fails with
\* that error (WsClosed with the code and reason of the frame,
\* WsStreamEnded, or the transport's error), not with WsHandshakeFailed or
\* WsConnectionTimeout, and returns no handle.
C37_HandshakeErrorPassedOn ==
    ConnectEndedOn({"close", "end", "error"}) =>
        /\ ~last.ok
        /\ last.err = (CASE LastItem.kind = "close" ->
                                WsClosed(LastItem.code, LastItem.reason)
                         [] LastItem.kind = "end" -> WsErr("WsStreamEnded")
                         [] OTHER -> WsErr("WsUpgradeError"))
        /\ last.err.kind \notin {"WsHandshakeFailed", "WsConnectionTimeout"}
        /\ last.sock \notin handles
        /\ sock[last.sock] = "dropped"

\* connect has failed with WsClosed(1000, "bye") on a close frame that came
\* before the connected status
C37_Witness ==
    /\ ConnectEndedOn({"close"})
    /\ last.err = WsClosed(1000, "bye")
    /\ last.sock \notin handles
    /\ hs[last.sock].state = "rejected"

---------------------------------------------------------------------------
(* Properties of ping and pong frames, under SpecControl *)

\* the pending recv has a ping or pong frame to read
MeetsControl ==
    /\ pc \in {"handshake", "recv"}
    /\ inq[cur] # <<>>
    /\ Head(inq[cur]).kind \in {"ping", "pong"}

\* the call that is pending stays pending and nothing has been returned
StaysPending ==
    /\ pc' = pc
    /\ cur' = cur
    /\ last' = last
    /\ hs' = hs
    /\ handles' = handles
    /\ sock' = sock

\* C38: recv never returns for a control frame: ping and pong frames are
\* skipped however many come in a row, and recv stays pending until a text
\* or binary frame, a close frame, a read error or the end of the stream;
\* the same in the handshake wait, where a control frame neither fails nor
\* completes the handshake (only the timer ends the wait meanwhile).
C38_ControlFramesSkipped ==
    /\ [][MeetsControl =>
             \/ StaysPending
             \/ /\ pc = "handshake"
                /\ TimerReady(waited, cfg)
                /\ last'.err.kind = "WsConnectionTimeout"
                /\ last'.item = <<>>]_vars
    /\ []((last.op \in {"recv", "connect"} /\ last.item # <<>>) =>
             LastItem.kind \in {"text", "binary", "close", "error", "end"})

\* recv has returned a message after its loop skipped two control frames,
\* on a handle whose handshake was completed
C38_Witness ==
    /\ last.op = "recv"
    /\ last.ok
    /\ LastItem.kind = "text"
    /\ call.skipped >= 2
    /\ hs[last.sock].state = "connected"

---------------------------------------------------------------------------
(* Properties of the order of delivery, under SpecOrder *)

IsDataFrame(item) == item.kind \in {"text", "binary"}

\* the items of the connection that have been read
ReadSoFar == SubSeq(call.sent, 1, Len(call.sent) - Len(inq[1]))

\* the text and binary frames among them, in their order
DataRead == SelectSeq(ReadSoFar, IsDataFrame)

\* what the handshake recv and then the calls of recv have returned
ReturnedSoFar == [i \in 1..Len(hs[1].got) |-> hs[1].got[i].msg] \o call.got

\* C39: the messages come in the order of delivery, each once: what the
\* handshake recv and the successive calls of recv have returned is the
\* sequence of the text and binary frames read from the stream, none lost,
\* doubled or out of place; connect takes exactly one data frame, the
\* connected status, so the first recv returns the second data frame; a
\* call of send reads none.
C39_DeliveredInOrder ==
    /\ [](hs[1].state = "waiting" => (DataRead = <<>> /\ call.got = <<>>))
    /\ [](hs[1].state = "connected" =>
             /\ Len(hs[1].got) = 1
             /\ DataRead[1] = Text(ConnectedDoc)
             /\ Len(ReturnedSoFar) = Len(DataRead)
             /\ \A i \in 1..Len(DataRead) :
                   ReturnedSoFar[i] =
                       (IF DataRead[i].kind = "text" THEN RecvText(DataRead[i].data)
                        ELSE RecvBinary(DataRead[i].data)))
    /\ [][(out' # out \/ (last' # last /\ last'.op = "send")) =>
             (inq' = inq /\ call' = call)]_vars

\* after a connect that read the connected status behind a ping, and a send,
\* two calls of recv have returned the second and the third data frame
C39_Witness ==
    /\ hs[1].state = "connected"
    /\ call.sent = <<Ping, Text(ConnectedDoc), Text(MarkPriceDoc), Binary(SubscribeDoc)>>
    /\ inq[1] = <<>>
    /\ call.got = <<RecvText(MarkPriceDoc), RecvBinary(SubscribeDoc)>>
    /\ Len(out[1]) = 1
    /\ pc = "idle"

---------------------------------------------------------------------------
(* The prefix 0x of the chain_hash, under SpecNew *)

\* Keypair::from_hex, as far as the bytes of the key: [ok, bytes]
from_hex(hex) ==
    LET decoded == hex_decode(StripPrefix(hex)) IN
    IF ~decoded.ok THEN [ok |-> FALSE, bytes |-> <<>>]
    ELSE IF Len(decoded.bytes) # ChainHashLen THEN [ok |-> FALSE, bytes |-> <<>>]
    ELSE [ok |-> TRUE, bytes |-> decoded.bytes]

\* new returns after it has read a schema whose chain_hash is a text
NewDecodes ==
    /\ NewReturns
    /\ pc = "schema"
    /\ srv.schema.ok
    /\ srv.schema.kind = "string"

\* C40, as stated: new accepts the chain_hash only when it is the hex of
\* exactly 32 bytes with at most one leading 0x, as Keypair::from_hex reads
\* a key; a text with 0x anywhere else is rejected with InvalidChainHash.
C40_OnlyLeadingPrefix ==
    [][NewDecodes =>
          LET k == from_hex(srv.schema.text) IN
          /\ k.ok => (txn'.stage = "none" /\ txn'.chain_hash = k.bytes)
          /\ ~k.ok =>
                \/ HashRejected
                \/ \E n \in 0..(2 * ChainHashLen) :
                       Rejected("InvalidChainHash: expected 32 bytes, got "
                                \o ToString(n))]_vars

\* new has returned a session for a chain_hash that from_hex does not read:
\* 0x stands behind its first two digits
C40_InnerPrefixAccepted ==
    /\ pc = "idle"
    /\ txn.op = "new"
    /\ txn.stage = "none"
    /\ txn.err = ""
    /\ srv.fetched = [constants |-> 1, schema |-> 1]
    /\ ~from_hex(srv.schema.text).ok
    /\ SubSeq(srv.schema.text, 3, 4) = <<"0", "x">>
    /\ Len(srv.schema.text) = 66
    /\ Len(txn.chain_hash) = ChainHashLen
====
